---- MODULE Spec2Model ----
(***************************************************************************)
(* AT-command handler: the response classifier and payload accumulator,    *)
(* the unsolicited dispatcher (src/src/at_cmd_handler.cpp) and the RTOS     *)
(* command engine built on them (src/src/at_cmd.cpp, os_queue.hpp,          *)
(* string_buf_tx.cpp).                                                      *)
(*                                                                          *)
(* A std::string is a sequence of one-character strings.                    *)
(***************************************************************************)
EXTENDS Integers, Sequences, FiniteSets, TLC

\* ------------------------------------------------------------------------
\* Characters and literals
\* ------------------------------------------------------------------------
cr == "<CR>"
lf == "<LF>"
ctrl_z == "<SUB>"

crlf == <<cr, lf>>

at_prefix == <<"A", "T">>
cme_error_str == <<"+", "C", "M", "E", " ", "E", "R", "R", "O", "R">>

str_OK == <<"O", "K">>
str_ERROR == <<"E", "R", "R", "O", "R">>
str_PROMPT == <<">">>

\* ------------------------------------------------------------------------
\* The command table (enum class at_cmd and at_cmd_str).  The build-time
\* configuration used here: one not-extended command H, two extended
\* commands CR and CRC, two unsolicited messages RING and RINGING.
\* ------------------------------------------------------------------------
cmd_at == 0
cmd_h == 1
cmd_cr == 2
cmd_crc == 3
number_of_commands == 4
at_cmd_none == 5

at_not_extended_cmds_num == 1

\* the enumerators as the configuration spells them
at_commands_all == << <<"h">>, <<"c", "r">>, <<"c", "r", "c">> >>

lower_case == <<"a", "b", "c", "d", "e", "f", "g", "h", "i", "j", "k", "l", "m", "n", "o", "p", "q", "r", "s", "t", "u", "v", "w", "x", "y", "z">>

upper_case == <<"A", "B", "C", "D", "E", "F", "G", "H", "I", "J", "K", "L", "M", "N", "O", "P", "Q", "R", "S", "T", "U", "V", "W", "X", "Y", "Z">>

\* to_upper: c - 'a' + 'A' for the characters 'a' to 'z'
to_upper(in) ==
    [i \in 1..Len(in) |->
        IF \E k \in 1..26 : lower_case[k] = in[i]
        THEN upper_case[CHOOSE k \in 1..26 : lower_case[k] = in[i]]
        ELSE in[i]]

\* make_array_with_at_commands: the first element is empty, for 'AT'
at_cmd_str == << <<>> >> \o [i \in 1..Len(at_commands_all) |-> to_upper(at_commands_all[i])]

msg_ring == 0
msg_ringing == 1

at_unsolicited_msg_str == << <<"R", "I", "N", "G">>, <<"R", "I", "N", "G", "I", "N", "G">> >>

cmd_name(command) == at_cmd_str[command + 1]

\* A test for which no command is extended.
is_extended_at_cmd_never(cmd) == FALSE

is_extended_at_cmd(cmd) == cmd > at_not_extended_cmds_num

\* ------------------------------------------------------------------------
\* String helpers of at_cmd_handler.cpp
\* ------------------------------------------------------------------------
string_starts_with(input, searched) ==
    /\ Len(input) >= Len(searched)
    /\ SubSeq(input, 1, Len(searched)) = searched

\* An echo test that only recognises the bare "AT" line.
is_echo_whole_line(response) == response = at_prefix

is_echo(response) == string_starts_with(response, at_prefix)

is_response_containing_command_name(response) == response[1] = "+"

\* response.compare(1, cmd_name.length(), cmd_name) == 0
is_response_to_specific_extended_command(response, command) ==
    /\ Len(response) >= 1 + Len(cmd_name(command))
    /\ SubSeq(response, 2, 1 + Len(cmd_name(command))) = cmd_name(command)

\* A test that takes only lines carrying the command's name.
is_response_to_command_named_only(response, command) ==
    IF ~is_extended_at_cmd(command) THEN FALSE
    ELSE IF ~is_response_containing_command_name(response) THEN FALSE
    ELSE is_response_to_specific_extended_command(response, command)

is_response_to_command(response, command) ==
    IF ~is_extended_at_cmd(command) THEN FALSE
    ELSE IF ~is_response_containing_command_name(response) THEN TRUE
    ELSE is_response_to_specific_extended_command(response, command)

\* A classification that does not know the prompt.
response_to_at_err_without_prompt(response, awaited_command) ==
    IF response = str_OK THEN "ok"
    ELSE IF response = str_ERROR THEN "error"
    ELSE IF string_starts_with(response, cme_error_str) THEN "cme_error"
    ELSE IF is_response_to_command(response, awaited_command) THEN "handling_cmd"
    ELSE "unknown"

response_to_at_err(response, awaited_command) ==
    IF response = str_OK THEN "ok"
    ELSE IF response = str_ERROR THEN "error"
    ELSE IF response = str_PROMPT THEN "prompt_request"
    ELSE IF string_starts_with(response, cme_error_str) THEN "cme_error"
    ELSE IF is_response_to_command(response, awaited_command) THEN "handling_cmd"
    ELSE "unknown"

\* A prefix length that never counts the space after the colon.
calc_prefix_len_without_space(response, command) == 1 + Len(cmd_name(command)) + 1

\* response[sz] is the terminating NUL when sz = length; beyond it the
\* read is out of bounds, and so is the erase that follows whatever it gives.
calc_prefix_len_in_response_on_extended_cmd(response, command) ==
    LET sz == 1 + Len(cmd_name(command)) + 1
    IN IF sz < Len(response) /\ response[sz + 1] = " " THEN sz + 1 ELSE sz

\* True when the erase runs past the end of the string (undefined behaviour).
erase_out_of_range(response, chars_to_erase_at_beginning) ==
    chars_to_erase_at_beginning > Len(response)

\* An erase that removes nothing.
remove_prefix_from_response_nothing(response, chars_to_erase_at_beginning, g) == response

\* g is what an out-of-range erase leaves behind.
remove_prefix_from_response(response, chars_to_erase_at_beginning, g) ==
    IF erase_out_of_range(response, chars_to_erase_at_beginning) THEN g
    ELSE SubSeq(response, chars_to_erase_at_beginning + 1, Len(response))

is_specific_unsolicited_msg(message, unsolicited_msg) ==
    string_starts_with(message, at_unsolicited_msg_str[unsolicited_msg + 1])

append_always_newline(src, dst) == dst \o crlf \o src

append_string_and_if_nonempty_add_newline(src, dst) ==
    IF dst = <<>> THEN src ELSE dst \o crlf \o src

\* ------------------------------------------------------------------------
\* The unsolicited dispatcher.  A registry entry is [id, command] or
\* [id, message]; id identifies the registered callback.  remove is what the
\* invoked callback returns (TRUE: unregister me).
\* ------------------------------------------------------------------------
\* An erase that leaves the list as it is.
RemoveAt_keep(s, i) == s

RemoveAt(s, i) == SubSeq(s, 1, i - 1) \o SubSeq(s, i + 1, Len(s))

MinOf(S) == CHOOSE x \in S : \A y \in S : x <= y

cmd_matches(response, handlers) ==
    {i \in 1..Len(handlers) : is_response_to_specific_extended_command(response, handlers[i].command)}

msg_matches(response, handlers) ==
    {i \in 1..Len(handlers) : is_specific_unsolicited_msg(response, handlers[i].message)}

SetToSeq(S) ==
    LET RECURSIVE build(_)
        build(T) == IF T = {} THEN <<>> ELSE <<MinOf(T)>> \o build(T \ {MinOf(T)})
    IN build(S)

cmd_invocation(response, h, g) ==
    [kind |-> "cmd", id |-> h.id,
     arg |-> remove_prefix_from_response(
                 response, calc_prefix_len_in_response_on_extended_cmd(response, h.command), g)]

msg_invocation(h) == [kind |-> "msg", id |-> h.id, arg |-> <<>>]

\* The dispatcher with the early returns dropped: every matching handler of
\* both lists is invoked.
handle_unsolicited_cmd_all(response, handlers, remove, g) ==
    LET cm == SetToSeq(cmd_matches(response, handlers.cmd))
        mm == SetToSeq(msg_matches(response, handlers.msg))
    IN [handlers |-> handlers,
        invoked |-> [k \in 1..Len(cm) |-> cmd_invocation(response, handlers.cmd[cm[k]], g)]
                    \o [k \in 1..Len(mm) |-> msg_invocation(handlers.msg[mm[k]])],
        ub |-> FALSE]

handle_unsolicited_cmd(response, handlers, remove, g) ==
    LET cm == cmd_matches(response, handlers.cmd)
        mm == msg_matches(response, handlers.msg)
    IN IF cm # {}
       THEN LET i == MinOf(cm)
                h == handlers.cmd[i]
            IN [handlers |-> [handlers EXCEPT !.cmd = IF remove THEN RemoveAt(@, i) ELSE @],
                invoked |-> <<cmd_invocation(response, h, g)>>,
                ub |-> erase_out_of_range(
                           response, calc_prefix_len_in_response_on_extended_cmd(response, h.command))]
       ELSE IF mm # {}
       THEN LET j == MinOf(mm)
            IN [handlers |-> [handlers EXCEPT !.msg = IF remove THEN RemoveAt(@, j) ELSE @],
                invoked |-> <<msg_invocation(handlers.msg[j])>>,
                ub |-> FALSE]
       ELSE [handlers |-> handlers, invoked |-> <<>>, ub |-> FALSE]

\* ------------------------------------------------------------------------
\* at_cmd_handler::handle_received_response
\* ------------------------------------------------------------------------
\* A classification that reports terminals and prompts whatever is awaited.
handle_received_response_none_unchecked(response, awaited_command, response_payload, handlers, remove, g) ==
    LET response_meaning == IF is_echo(response) THEN "unknown"
                            ELSE response_to_at_err(response, cmd_at)
    IN [res |-> response_meaning, payload |-> response_payload, handlers |-> handlers,
        invoked |-> <<>>, ub |-> FALSE]

handle_received_response(response, awaited_command, response_payload, handlers, remove, g) ==
    IF awaited_command = at_cmd_none
    THEN LET u == handle_unsolicited_cmd(response, handlers, remove, g)
         IN [res |-> "unknown", payload |-> response_payload, handlers |-> u.handlers,
             invoked |-> u.invoked, ub |-> u.ub]
    ELSE IF is_echo(response)
    THEN [res |-> "unknown", payload |-> response_payload, handlers |-> handlers,
          invoked |-> <<>>, ub |-> FALSE]
    ELSE LET response_meaning == response_to_at_err(response, awaited_command)
         IN CASE response_meaning = "cme_error" ->
                   [res |-> response_meaning,
                    payload |-> append_string_and_if_nonempty_add_newline(
                                    remove_prefix_from_response(response, Len(cme_error_str), g),
                                    response_payload),
                    handlers |-> handlers, invoked |-> <<>>, ub |-> FALSE]
              [] response_meaning = "handling_cmd" ->
                   LET named == is_response_containing_command_name(response)
                       prefix_len == calc_prefix_len_in_response_on_extended_cmd(response, awaited_command)
                       seg == IF named THEN remove_prefix_from_response(response, prefix_len, g)
                              ELSE response
                   IN [res |-> response_meaning,
                       payload |-> append_string_and_if_nonempty_add_newline(seg, response_payload),
                       handlers |-> handlers, invoked |-> <<>>,
                       ub |-> named /\ erase_out_of_range(response, prefix_len)]
              [] response_meaning = "unknown" ->
                   LET u == handle_unsolicited_cmd(response, handlers, remove, g)
                   IN [res |-> response_meaning, payload |-> response_payload,
                       handlers |-> u.handlers, invoked |-> u.invoked, ub |-> u.ub]
              [] OTHER ->
                   [res |-> response_meaning, payload |-> response_payload, handlers |-> handlers,
                    invoked |-> <<>>, ub |-> FALSE]

register_unsolicited_handler_cmd(handlers, id, unsolicited_command) ==
    [handlers EXCEPT !.cmd = Append(@, [id |-> id, command |-> unsolicited_command])]

register_unsolicited_handler_msg(handlers, id, unsolicited_msg) ==
    [handlers EXCEPT !.msg = Append(@, [id |-> id, message |-> unsolicited_msg])]

\* ------------------------------------------------------------------------
\* State
\* ------------------------------------------------------------------------
VARIABLES
    \* at_cmd_handler and the accumulator / awaited command it is driven with
    cmd_handler,        \* [cmd, msg]: the two handler lists
    response_payload,   \* the accumulating payload
    awaited_cmd,        \* the awaited command, at_cmd_none when idle
    \* the classifier driven line by line (tests/non-rtos)
    h_last,             \* the last call of handle_received_response and what it did
    h_segs,             \* segments of the data lines fed since the command was awaited
    h_plain,            \* the run so far holds only data lines and other commands' lines
    h_strict,           \* ... and the other commands' names do not begin with the awaited name
    h_len,              \* lines fed since the command was awaited
    h_regs,             \* handlers registered so far (the next handler's id - 1)
    h_removed,          \* ids of the handlers whose callback has returned true
    \* the two string buffers driven on their own
    rxf,                \* string_buf_rx and what was pushed into and popped from it
    txs,                \* string_buf_tx and what was pushed into and popped from it
    pfx,                \* the calls of prepare_cmd_prefix_to_transmit made on its own
    \* the command engine (at_cmd.cpp)
    pc,                 \* where each caller task is in at_send_and_get_response
    call,               \* each caller task's arguments
    wait_left,          \* ticks left of a caller's xSemaphoreTake
    at_mux,             \* holder of the send-serialising mutex, 0 when free
    at_cmd_handler_mux, \* holder of the registry mutex, 0 when free
    at_depute_work_queue,
    at_work_result_queue,
    at_prompt_data,
    tx_buf,             \* string_buf_tx
    tx_it_enabled,      \* the TX interrupt is enabled
    wire,               \* bytes handed to hw_at_send_byte, grouped by frame
    rx_buf,             \* complete lines in string_buf_rx
    rx_notif,           \* pending notifications of the RX task
    rx,                 \* the RX task: position and locals
    calls,              \* every call that took the mutex, and how it ended
    periph              \* lines the peripheral is about to send

handler_vars == <<cmd_handler, response_payload, awaited_cmd>>

buf_vars == <<rxf, txs, pfx>>

test_vars == <<h_last, h_segs, h_plain, h_strict, h_len, h_regs, h_removed, buf_vars>>

engine_vars == <<pc, call, wait_left, at_mux, at_cmd_handler_mux,
                 at_depute_work_queue, at_work_result_queue, at_prompt_data,
                 tx_buf, tx_it_enabled, wire, rx_buf, rx_notif, rx,
                 calls, periph>>

vars == <<handler_vars, test_vars, engine_vars>>

\* ------------------------------------------------------------------------
\* Bounds
\* ------------------------------------------------------------------------
MaxRun == 4
MaxFeeds == 2
MaxHandlers == 2

\* What an out-of-bounds erase can leave in the string.
Garbage == {<<>>, <<"?">>}

\* ------------------------------------------------------------------------
\* The classifier driven line by line, as the non-RTOS tests drive it:
\* register handlers, await a command with a fresh payload, feed lines.
\* ------------------------------------------------------------------------
line_echo == <<"A", "T", "+", "C", "R", "=", "1">>
line_cme == cme_error_str \o <<":", " ", "3">>
line_cr_a == <<"+", "C", "R", ":", " ", "a">>
line_cr_b == <<"+", "C", "R", ":", "b">>
line_cr_empty == <<"+", "C", "R", ":">>
line_cr_bare == <<"+", "C", "R">>
line_crc_c == <<"+", "C", "R", "C", ":", " ", "c">>
line_h == <<"+", "H", ":", " ", "h">>
line_d == <<"d">>
line_ring == <<"R", "I", "N", "G">>
line_ringing == <<"R", "I", "N", "G", "I", "N", "G">>

\* lines fed to the classifier while a command's reply is accumulated
PLines ==
    { str_OK, str_ERROR, str_PROMPT, line_cme, line_echo,
      line_cr_a, line_cr_b, line_cr_empty, line_crc_c, line_h, line_d, line_ring }

\* lines fed to the classifier with handlers registered
HLines ==
    { str_OK, line_cme, line_echo, line_cr_a, line_cr_b, line_cr_bare, line_crc_c, line_h,
      line_d, line_ring, line_ringing }

HAwaitable == {cmd_h, cmd_cr, cmd_crc, at_cmd_none}

HRegistrable == {cmd_h, cmd_cr, cmd_crc}

NoCall == [line |-> <<>>, handlers |-> [cmd |-> <<>>, msg |-> <<>>],
           res |-> "none", invoked |-> <<>>, removed |-> FALSE, ub |-> FALSE,
           plain |-> FALSE, strict |-> FALSE]

\* --- the data lines of a reply, as the specification words them ---------
RefHasPrefix(l, p) == Len(l) >= Len(p) /\ \A i \in 1..Len(p) : l[i] = p[i]

RefTag(c) == <<"+">> \o cmd_name(c) \o <<":">>

RefIsTerminal(l) == l = str_OK \/ l = str_ERROR \/ RefHasPrefix(l, cme_error_str)

RefIsEcho(l) == RefHasPrefix(l, at_prefix)

\* '+<name>:[space]<rest>' of the awaited command, or a line without '+'
RefIsData(l, c) ==
    /\ ~RefIsTerminal(l) /\ ~RefIsEcho(l) /\ l # str_PROMPT
    /\ l[1] # "+" \/ RefHasPrefix(l, RefTag(c))

RefCmds == {cmd_h, cmd_cr, cmd_crc}

RefExtended == {cmd_cr, cmd_crc}

\* an unsolicited line '+<name>:...' of another command
RefIsOther(l, c) == \E d \in RefCmds \ {c} : RefHasPrefix(l, RefTag(d))

\* ... of another command whose name does not begin with the awaited name
RefIsForeign(l, c) ==
    \E d \in RefCmds \ {c} :
        /\ RefHasPrefix(l, RefTag(d))
        /\ ~RefHasPrefix(cmd_name(d), cmd_name(c))

RefStrip(l, c) ==
    IF l[1] # "+" THEN l
    ELSE LET n == Len(RefTag(c))
             m == IF Len(l) > n /\ l[n + 1] = " " THEN n + 1 ELSE n
         IN [i \in 1..(Len(l) - m) |-> l[m + i]]

RECURSIVE RefJoin(_)
RefJoin(segs) ==
    IF segs = <<>> THEN <<>>
    ELSE IF Len(segs) = 1 THEN segs[1]
    ELSE segs[1] \o crlf \o RefJoin(Tail(segs))

\* the join rule: a segment replaces an empty accumulator
RECURSIVE RefFold(_, _)
RefFold(acc, segs) ==
    IF segs = <<>> THEN acc
    ELSE RefFold(IF acc = <<>> THEN segs[1] ELSE acc \o crlf \o segs[1], Tail(segs))

EngineIdle ==
    /\ pc = <<>> /\ call = <<>> /\ wait_left = <<>>
    /\ at_mux = 0 /\ at_cmd_handler_mux = 0
    /\ at_depute_work_queue = <<>> /\ at_work_result_queue = <<>>
    /\ at_prompt_data = <<>>
    /\ tx_buf = <<>> /\ tx_it_enabled = FALSE /\ wire = <<>>
    /\ rx_buf = <<>> /\ rx_notif = 0 /\ rx = <<>>
    /\ calls = <<>> /\ periph = <<>>

BuffersIdle == rxf = <<>> /\ txs = <<>> /\ pfx = <<>>

HInit ==
    /\ cmd_handler = [cmd |-> <<>>, msg |-> <<>>]
    /\ response_payload = <<>>
    /\ awaited_cmd = at_cmd_none
    /\ h_last = NoCall
    /\ h_segs = <<>>
    /\ h_plain = TRUE
    /\ h_strict = TRUE
    /\ h_len = 0
    /\ h_regs = 0
    /\ h_removed = {}
    /\ EngineIdle
    /\ BuffersIdle

\* at_cmd_handler::register_unsolicited_handler(at_cmd, ...)
HRegisterCmd(c) ==
    /\ h_len = 0
    /\ h_regs < MaxHandlers
    /\ cmd_handler' = register_unsolicited_handler_cmd(cmd_handler, h_regs + 1, c)
    /\ h_regs' = h_regs + 1
    /\ UNCHANGED <<response_payload, awaited_cmd, h_last, h_segs, h_plain, h_strict, h_len,
                   h_removed, buf_vars, engine_vars>>

\* at_cmd_handler::register_unsolicited_handler(at_unsolicited_msg, ...)
HRegisterMsg(m) ==
    /\ h_len = 0
    /\ h_regs < MaxHandlers
    /\ cmd_handler' = register_unsolicited_handler_msg(cmd_handler, h_regs + 1, m)
    /\ h_regs' = h_regs + 1
    /\ UNCHANGED <<response_payload, awaited_cmd, h_last, h_segs, h_plain, h_strict, h_len,
                   h_removed, buf_vars, engine_vars>>

\* a test's GIVEN: an empty payload and the command to await
HAwait(c) ==
    /\ h_len > 0 \/ awaited_cmd # c
    /\ awaited_cmd' = c
    /\ response_payload' = <<>>
    /\ h_segs' = <<>>
    /\ h_plain' = TRUE
    /\ h_strict' = TRUE
    /\ h_len' = 0
    /\ h_last' = NoCall
    /\ UNCHANGED <<cmd_handler, h_regs, h_removed, buf_vars, engine_vars>>

\* one call of at_cmd_handler::handle_received_response
HFeed(line, remove, g, bound) ==
    /\ h_len < bound
    /\ LET r == handle_received_response(line, awaited_cmd, response_payload, cmd_handler, remove, g)
       IN /\ response_payload' = r.payload
          /\ cmd_handler' = r.handlers
          /\ h_last' = [line |-> line, handlers |-> cmd_handler, res |-> r.res,
                        invoked |-> r.invoked, removed |-> (remove /\ r.invoked # <<>>),
                        ub |-> r.ub, plain |-> h_plain, strict |-> h_strict]
          /\ h_removed' = IF remove THEN h_removed \cup {r.invoked[k].id : k \in 1..Len(r.invoked)}
                          ELSE h_removed
    /\ h_len' = h_len + 1
    /\ h_segs' = IF awaited_cmd # at_cmd_none /\ RefIsData(line, awaited_cmd)
                 THEN Append(h_segs, RefStrip(line, awaited_cmd))
                 ELSE h_segs
    /\ h_plain' = (h_plain /\ awaited_cmd # at_cmd_none
                    /\ (RefIsData(line, awaited_cmd) \/ RefIsOther(line, awaited_cmd)))
    /\ h_strict' = (h_strict /\ awaited_cmd # at_cmd_none
                     /\ (RefIsData(line, awaited_cmd) \/ RefIsForeign(line, awaited_cmd)))
    /\ UNCHANGED <<awaited_cmd, h_regs, buf_vars, engine_vars>>

HNext ==
    \/ \E c \in HRegistrable : HRegisterCmd(c)
    \/ \E m \in {msg_ring, msg_ringing} : HRegisterMsg(m)
    \/ \E c \in HAwaitable : HAwait(c)
    \/ \E line \in HLines, remove \in BOOLEAN, g \in Garbage : HFeed(line, remove, g, MaxFeeds)

SpecHandler == HInit /\ [][HNext]_vars

\* One reply accumulated from the first line to the last: a command is
\* awaited with an empty payload, a handler of each kind may be registered.
PRegistries ==
    { [cmd |-> <<>>, msg |-> <<>>],
      [cmd |-> <<[id |-> 1, command |-> cmd_crc]>>, msg |-> <<[id |-> 2, message |-> msg_ring]>>] }

PInit ==
    /\ cmd_handler \in PRegistries
    /\ response_payload = <<>>
    /\ awaited_cmd \in {cmd_h, cmd_cr, cmd_crc}
    /\ h_last = NoCall
    /\ h_segs = <<>>
    /\ h_plain = TRUE
    /\ h_strict = TRUE
    /\ h_len = 0
    /\ h_regs = Len(cmd_handler.cmd) + Len(cmd_handler.msg)
    /\ h_removed = {}
    /\ EngineIdle
    /\ BuffersIdle

PNext == \E line \in PLines, remove \in BOOLEAN, g \in Garbage : HFeed(line, remove, g, MaxRun)

SpecPayload == PInit /\ [][PNext]_vars

\* ------------------------------------------------------------------------
\* C8 - payload delivered with the terminal
\* ------------------------------------------------------------------------
HTerminalFed == h_last.res \in {"ok", "error", "cme_error"}

C9_EchoIsIgnored ==
    [][(h_len' = h_len + 1 /\ awaited_cmd # at_cmd_none /\ RefIsEcho(h_last'.line))
        => /\ response_payload' = response_payload
           /\ cmd_handler' = cmd_handler
           /\ h_last'.invoked = <<>>
           /\ h_last'.res = "unknown"]_vars

\* an echo fed between a data line and the end of the run
C9_Witness ==
    /\ awaited_cmd \in RefExtended
    /\ RefIsEcho(h_last.line) /\ Len(h_last.line) > Len(at_prefix)
    /\ response_payload # <<>>
    /\ cmd_handler.cmd # <<>>

\* ------------------------------------------------------------------------
\* C10 - at most one handler per dispatched line, the earliest registered
\* ------------------------------------------------------------------------
RefCmdHits(l, hs) == {i \in 1..Len(hs) : RefHasPrefix(Tail(l), cmd_name(hs[i].command))}

RefMsgHits(l, hs) ==
    {i \in 1..Len(hs) : RefHasPrefix(l, at_unsolicited_msg_str[hs[i].message + 1])}

RefFirst(S) == CHOOSE i \in S : \A j \in S : i <= j

RefInvoked(l, h) ==
    IF RefCmdHits(l, h.cmd) # {} THEN << <<"cmd", h.cmd[RefFirst(RefCmdHits(l, h.cmd))].id>> >>
    ELSE IF RefMsgHits(l, h.msg) # {} THEN << <<"msg", h.msg[RefFirst(RefMsgHits(l, h.msg))].id>> >>
    ELSE <<>>

HInvokedIds == [k \in 1..Len(h_last.invoked) |-> <<h_last.invoked[k].kind, h_last.invoked[k].id>>]

\* the last line went to the dispatcher: nothing was awaited, or it was
\* classified unknown without being an echo
HDispatched ==
    /\ h_last.res = "unknown"
    /\ awaited_cmd = at_cmd_none \/ ~RefIsEcho(h_last.line)

RefIds(hs) == {hs.cmd[i].id : i \in 1..Len(hs.cmd)} \cup {hs.msg[i].id : i \in 1..Len(hs.msg)}

RefWithout(s, id) == SelectSeq(s, LAMBDA h : h.id # id)

\* C11: a handler whose callback returned true is out of the registry
\* before the next line is processed (the others keep their order) and is
\* not invoked for any later line; after a callback returned false the
\* registry is as it was, and the handler is invoked again for every later
\* line for which it is the first match.
C11_RemoveTakesEffectAtOnce ==
    /\ [](/\ RefIds(cmd_handler) \cap h_removed = {}
          /\ HDispatched => HInvokedIds = RefInvoked(h_last.line, h_last.handlers)
          /\ (h_last.invoked # <<>> /\ ~h_last.removed) => cmd_handler = h_last.handlers
          /\ (h_last.invoked # <<>> /\ h_last.removed)
                => /\ cmd_handler.cmd = RefWithout(h_last.handlers.cmd, h_last.invoked[1].id)
                   /\ cmd_handler.msg = RefWithout(h_last.handlers.msg, h_last.invoked[1].id))
    /\ [][h_len' = h_len + 1
            => \A k \in 1..Len(h_last'.invoked) : h_last'.invoked[k].id \notin h_removed]_vars

\* the first handler of two for the same command returned true on the first
\* line; the second line of that command went to the second handler
C11_Witness ==
    /\ h_len = 2
    /\ h_removed # {}
    /\ Len(h_last.handlers.cmd) = 1
    /\ h_last.invoked # <<>>
    /\ h_last.invoked[1].kind = "cmd"
    /\ h_last.invoked[1].id = 2
    /\ 1 \in h_removed

\* ------------------------------------------------------------------------
\* cyclic_buf<T, N> (cyclic_buf.hpp).  N is a power of two, so "& mask" is
\* the remainder of the division by N.
\* ------------------------------------------------------------------------
nul == "<NUL>"

cyclic_buf_init(N, zero) == [buf |-> [i \in 0..(N - 1) |-> zero], head |-> 0, tail |-> 0]

cyclic_buf_push_elem(cb, val, N) ==
    [cb EXCEPT !.buf[cb.head] = val, !.head = (cb.head + 1) % N]

cyclic_buf_pop_elem(cb, N) ==
    [val |-> cb.buf[cb.tail], cb |-> [cb EXCEPT !.tail = (cb.tail + 1) % N]]

\* A pop of n elements that copies from the start of the array after a swing
\* without leaving out the part already copied.
cyclic_buf_pop_nelems_no_swing(cb, n, N) ==
    [vals |-> [i \in 1..n |-> cb.buf[IF cb.tail + i - 1 < N THEN cb.tail + i - 1 ELSE i - 1]],
     cb |-> IF n = 0 THEN cb ELSE [cb EXCEPT !.tail = (cb.tail + n) % N]]

cyclic_buf_pop_nelems(cb, n, N) ==
    [vals |-> [i \in 1..n |-> cb.buf[(cb.tail + i - 1) % N]],
     cb |-> IF n = 0 THEN cb ELSE [cb EXCEPT !.tail = (cb.tail + n) % N]]

cyclic_buf_is_empty(cb) == cb.head = cb.tail

cyclic_buf_get_num_elems(cb, N) ==
    IF cb.tail > cb.head THEN N - cb.tail + cb.head ELSE cb.head - cb.tail

\* ------------------------------------------------------------------------
\* string_buf_rx<ImmediateBufferSize> (string_buf_rx.hpp)
\* ------------------------------------------------------------------------
RxBufLenLog2 == 2
MaxRxLines == 4

ImmediateBufferSize == 2 ^ RxBufLenLog2

ends_indexes_cb_def_size == 16

calc_len_in_circular_buffer(beg_idx, end_idx, cyclic_buf_size) ==
    IF beg_idx > end_idx THEN cyclic_buf_size - beg_idx + end_idx ELSE end_idx - beg_idx

string_buf_rx_init(exceptional_chars) ==
    [m_end_indexes_cb |-> cyclic_buf_init(ends_indexes_cb_def_size, 0),
     m_cb |-> cyclic_buf_init(ImmediateBufferSize, nul),
     m_exceptional_chars |-> exceptional_chars,
     m_last_end_idx |-> 0]

string_buf_rx_is_empty(b) == cyclic_buf_is_empty(b.m_end_indexes_cb)

string_buf_rx_record_end(b) ==
    [b EXCEPT !.m_end_indexes_cb = cyclic_buf_push_elem(@, b.m_cb.head, ends_indexes_cb_def_size),
              !.m_last_end_idx = b.m_cb.head]

\* A push that knows no exceptional characters.
string_buf_rx_push_byte_plain(b, c) ==
    IF c \in {lf, cr, nul}
    THEN IF b.m_last_end_idx = b.m_cb.head
         THEN [ret |-> FALSE, buf |-> b]
         ELSE [ret |-> TRUE, buf |-> string_buf_rx_record_end(b)]
    ELSE [ret |-> FALSE, buf |-> [b EXCEPT !.m_cb = cyclic_buf_push_elem(@, c, ImmediateBufferSize)]]

\* returns [ret, buf]
string_buf_rx_push_byte_and_is_string_end(b, c) ==
    IF c \in {lf, cr, nul}
    THEN IF b.m_last_end_idx = b.m_cb.head
         THEN [ret |-> FALSE, buf |-> b]
         ELSE [ret |-> TRUE, buf |-> string_buf_rx_record_end(b)]
    ELSE IF c \in b.m_exceptional_chars /\ b.m_last_end_idx = b.m_cb.head
    THEN [ret |-> TRUE,
          buf |-> string_buf_rx_record_end(
                      [b EXCEPT !.m_cb = cyclic_buf_push_elem(@, c, ImmediateBufferSize)])]
    ELSE [ret |-> FALSE, buf |-> [b EXCEPT !.m_cb = cyclic_buf_push_elem(@, c, ImmediateBufferSize)]]

\* returns [str, buf]
string_buf_rx_pop_string(b) ==
    IF string_buf_rx_is_empty(b) THEN [str |-> <<>>, buf |-> b]
    ELSE LET beg == b.m_cb.tail
             e == cyclic_buf_pop_elem(b.m_end_indexes_cb, ends_indexes_cb_def_size)
             len == calc_len_in_circular_buffer(beg, e.val, ImmediateBufferSize)
             p == cyclic_buf_pop_nelems(b.m_cb, len, ImmediateBufferSize)
         IN [str |-> p.vals, buf |-> [b EXCEPT !.m_end_indexes_cb = e.cb, !.m_cb = p.cb]]

\* ------------------------------------------------------------------------
\* The framer driven on its own: bytes are pushed as the RX interrupt pushes
\* them, lines are popped as the RX task pops them.  rxf holds the framer
\* (buf) and, beside it, the lines the bytes pushed so far make up:
\*   cur / pending    by the delimiters CR, LF, NUL alone,
\*   curx / pendingx  with an exceptional character at the start of a line
\*                    taken as a line of its own,
\* each as the line under way and the complete lines not popped yet; last is
\* the last pop: what it returned, what either reading expects and how
\* many complete lines were waiting.
\* ------------------------------------------------------------------------
RxDataBytes == {"a", "b", ">"}

RxDelimiters == {cr, lf, nul}

RxExceptional == { {}, {">"} }

NoPop == [got |-> <<>>, want |-> <<>>, wantx |-> <<>>, n |-> 0]

RxInit ==
    /\ \E x \in RxExceptional :
           rxf = [buf |-> string_buf_rx_init(x), cur |-> <<>>, pending |-> <<>>,
                  curx |-> <<>>, pendingx |-> <<>>, last |-> NoPop, lines |-> 0]
    /\ txs = <<>>
    /\ pfx = <<>>
    /\ cmd_handler = <<>> /\ response_payload = <<>> /\ awaited_cmd = at_cmd_none
    /\ h_last = <<>> /\ h_segs = <<>> /\ h_plain = TRUE /\ h_strict = TRUE
    /\ h_len = 0 /\ h_regs = 0 /\ h_removed = {}
    /\ EngineIdle

rx_others == <<handler_vars, h_last, h_segs, h_plain, h_strict, h_len, h_regs, h_removed, txs, pfx, engine_vars>>

\* it_handle_at_byte_rx pushes a data byte; the byte ring has room for it
RxPushData(c) ==
    /\ cyclic_buf_get_num_elems(rxf.buf.m_cb, ImmediateBufferSize) < ImmediateBufferSize - 1
    /\ c \in rxf.buf.m_exceptional_chars /\ rxf.buf.m_last_end_idx = rxf.buf.m_cb.head
          => rxf.lines < MaxRxLines
    /\ LET r == string_buf_rx_push_byte_and_is_string_end(rxf.buf, c)
           alone == c \in rxf.buf.m_exceptional_chars /\ rxf.curx = <<>>
       IN rxf' = [rxf EXCEPT !.buf = r.buf,
                             !.cur = Append(@, c),
                             !.curx = IF alone THEN @ ELSE Append(@, c),
                             !.pendingx = IF alone THEN Append(@, <<c>>) ELSE @,
                             !.lines = IF r.ret THEN @ + 1 ELSE @]
    /\ UNCHANGED rx_others

\* it_handle_at_byte_rx pushes a delimiter
RxPushDelimiter(c) ==
    /\ rxf.lines < MaxRxLines
    /\ LET r == string_buf_rx_push_byte_and_is_string_end(rxf.buf, c)
       IN rxf' = [rxf EXCEPT !.buf = r.buf,
                             !.cur = <<>>,
                             !.pending = IF rxf.cur = <<>> THEN @ ELSE Append(@, rxf.cur),
                             !.curx = <<>>,
                             !.pendingx = IF rxf.curx = <<>> THEN @ ELSE Append(@, rxf.curx),
                             !.lines = IF r.ret THEN @ + 1 ELSE @]
    /\ UNCHANGED rx_others

\* at_rx_task pops a line
RxPop ==
    /\ LET r == string_buf_rx_pop_string(rxf.buf)
       IN rxf' = [rxf EXCEPT !.buf = r.buf,
                             !.pending = IF @ = <<>> THEN @ ELSE Tail(@),
                             !.pendingx = IF @ = <<>> THEN @ ELSE Tail(@),
                             !.last = [got |-> r.str,
                                       want |-> IF rxf.pending = <<>> THEN <<>> ELSE Head(rxf.pending),
                                       wantx |-> IF rxf.pendingx = <<>> THEN <<>> ELSE Head(rxf.pendingx),
                                       n |-> Len(rxf.pendingx)]]
    /\ UNCHANGED rx_others

RxNext ==
    \/ \E c \in RxDataBytes : RxPushData(c)
    \/ \E c \in RxDelimiters : RxPushDelimiter(c)
    \/ RxPop

SpecRx == RxInit /\ [][RxNext]_vars

\* ------------------------------------------------------------------------
\* C12 - the framer gives back the lines that were pushed
\* ------------------------------------------------------------------------
\* C12 as stated: every pop returns the next line of the partition of the
\* pushed bytes by CR, LF and NUL, without delimiter bytes, and the empty
\* string when no complete line is left.
C12_PopYieldsDelimitedLines == rxf.last.got = rxf.last.want

\* C12 amended: every pop returns the next line of the pushed bytes, lines
\* being ended by CR, LF or NUL, an exceptional character received at the
\* start of a line being a line of its own; the empty string when no
\* complete line is left.
C12_PopYieldsFramedLines == rxf.last.got = rxf.last.wantx

\* a line that swings round the end of the byte ring was popped, with a
\* further line complete behind it
C12_Witness ==
    /\ rxf.last.n = 2
    /\ Len(rxf.last.got) = 2
    /\ rxf.last.got = rxf.last.wantx
    /\ rxf.buf.m_cb.tail < Len(rxf.last.got)
    /\ rxf.buf.m_cb.tail > 0

\* ------------------------------------------------------------------------
\* The command engine (at_cmd.cpp): caller tasks, the RX task, the two
\* interrupt handlers and the peripheral at the other end of the line.
\* Tasks interleave between library calls; an interrupt handler runs as one
\* step.
\* ------------------------------------------------------------------------
NumCallers == 2
MaxCalls == 2
MaxTicks == 1

Callers == 1..NumCallers

EngineCmds == {cmd_cr, cmd_crc}

\* A prefix with '+' for every command.
prepare_cmd_prefix_always_extended(command, type) ==
    at_prefix
    \o <<"+">>
    \o cmd_name(command)
    \o (CASE type = "read" -> <<"?">>
          [] type = "test" -> <<"=", "?">>
          [] type = "write" -> <<"=">>
          [] OTHER -> <<>>)

prepare_cmd_prefix_to_transmit(command, type) ==
    at_prefix
    \o (IF is_extended_at_cmd(command) THEN <<"+">> ELSE <<>>)
    \o cmd_name(command)
    \o (CASE type = "read" -> <<"?">>
          [] type = "test" -> <<"=", "?">>
          [] type = "write" -> <<"=">>
          [] OTHER -> <<>>)

\* --- os_lockguard: a mutex is 0 when free, else its holder ---------------
\* a constructor that does not wait for the mutex
os_lockguard_ctor_no_wait(mux) == TRUE

\* the constructor returns once xSemaphoreTake(mux, portMAX_DELAY) got the mutex
os_lockguard_ctor(mux) == mux = 0

\* a destructor that keeps the mutex
os_lockguard_dtor_no_give(mux) == mux

\* the destructor gives the mutex back
os_lockguard_dtor(mux) == 0

\* --- os_queue<T, 1>: a vector behind a mutex and a counting semaphore ----
os_queue_N == 1

os_queue_init == [m_queue |-> <<>>, sem |-> 0, corrupt |-> FALSE]

\* overwrite, the part under m_mux: emplace_back into the empty vector,
\* else assign m_queue[0]
os_queue_overwrite_store(q, e) ==
    [q EXCEPT !.m_queue = IF q.corrupt THEN @ ELSE <<e>>]

\* overwrite, xSemaphoreGive: fails when the count is at its maximum
os_queue_overwrite_give(q) ==
    [q EXCEPT !.sem = IF @ < os_queue_N THEN @ + 1 ELSE @]

\* receive, xSemaphoreTake succeeded
os_queue_receive_take(q) == [q EXCEPT !.sem = @ - 1]

\* receive reads m_queue[size - 1]: out of bounds when the vector is empty
os_queue_receive_out_of_bounds(q) == q.corrupt \/ q.m_queue = <<>>

\* receive, the part under m_mux; g is what an out-of-bounds read gives.
\* pop_back of an empty vector leaves its size beyond repair.
os_queue_receive_read(q, g) ==
    IF os_queue_receive_out_of_bounds(q)
    THEN [value |-> g, queue |-> [q EXCEPT !.m_queue = <<>>, !.corrupt = TRUE]]
    ELSE [value |-> q.m_queue[Len(q.m_queue)], queue |-> [q EXCEPT !.m_queue = <<>>]]

\* --- string_buf_tx: a list of strings, an iterator into the list (tx_END
\* is end()) and a byte position in the current string (0 is nullptr).
\* A string is [fr, text, last]: the frame it belongs to, its bytes and
\* whether it ends the frame (fr and last are bookkeeping).
tx_END == 0

string_buf_tx_init == [m_strings |-> <<>>, m_strings_it |-> tx_END, m_byte_it |-> 0]

string_buf_tx_is_empty(b) == b.m_strings_it = tx_END

string_buf_tx_push_string(b, s) ==
    LET was_empty_list_of_strings == b.m_strings = <<>>
        was_empty == string_buf_tx_is_empty(b)
    IN [b EXCEPT !.m_strings = Append(@, s),
                 !.m_strings_it = IF was_empty_list_of_strings THEN 1
                                  ELSE IF was_empty THEN Len(b.m_strings) + 1
                                  ELSE @]

\* The byte after the last one of a string is its terminating NUL; "<?>" is
\* whatever a read further past the end gives.
string_buf_tx_pop_byte(b) ==
    LET current_str == b.m_strings[b.m_strings_it]
        at == IF b.m_byte_it = 0 THEN 1 ELSE b.m_byte_it
        whole == at = Len(current_str.text)
    IN [byte |-> IF at <= Len(current_str.text) THEN current_str.text[at]
                 ELSE IF at = Len(current_str.text) + 1 THEN "<NUL>"
                 ELSE "<?>",
        fr |-> current_str.fr,
        last |-> current_str.last /\ whole,
        buf |-> [b EXCEPT !.m_byte_it = IF whole THEN 0 ELSE at + 1,
                          !.m_strings_it = IF ~whole THEN @
                                           ELSE IF @ = Len(b.m_strings) THEN tx_END
                                           ELSE @ + 1]]

\* erase(begin(), m_strings_it)
string_buf_tx_clean(b) ==
    IF b.m_strings_it = tx_END THEN [b EXCEPT !.m_strings = <<>>]
    ELSE [b EXCEPT !.m_strings = SubSeq(@, b.m_strings_it, Len(@)), !.m_strings_it = 1]

\* hw_at_send_byte: the byte goes on the wire; consecutive bytes of one
\* frame are kept together
hw_at_send_byte(w, p) ==
    IF w # <<>> /\ w[Len(w)].fr = p.fr /\ ~w[Len(w)].done
    THEN [w EXCEPT ![Len(w)].bytes = Append(@, p.byte), ![Len(w)].done = p.last]
    ELSE Append(w, [fr |-> p.fr, bytes |-> <<p.byte>>, done |-> p.last])

\* ------------------------------------------------------------------------
\* string_buf_tx driven on its own: strings are pushed and the buffer is
\* cleaned as a task does it, bytes are popped as the TX interrupt pops
\* them.  txs holds the buffer (buf), the concatenation of the strings
\* pushed so far (pushed), the bytes pop_byte has returned (popped) and the
\* number of strings pushed (n).
\* ------------------------------------------------------------------------
MaxTxStrings == 3

TxStrings == { <<>>, <<"a">>, <<"b", "c">> }

TxInit ==
    /\ txs = [buf |-> string_buf_tx_init, pushed |-> <<>>, popped |-> <<>>, n |-> 0]
    /\ rxf = <<>>
    /\ pfx = <<>>
    /\ cmd_handler = <<>> /\ response_payload = <<>> /\ awaited_cmd = at_cmd_none
    /\ h_last = <<>> /\ h_segs = <<>> /\ h_plain = TRUE /\ h_strict = TRUE
    /\ h_len = 0 /\ h_regs = 0 /\ h_removed = {}
    /\ EngineIdle

tx_others == <<handler_vars, h_last, h_segs, h_plain, h_strict, h_len, h_regs, h_removed, rxf, pfx, engine_vars>>

\* tx_buf.push_string(std::make_unique<std::string>(s))
TxPush(s) ==
    /\ txs.n < MaxTxStrings
    /\ txs' = [txs EXCEPT !.buf = string_buf_tx_push_string(@, [text |-> s, fr |-> txs.n + 1, last |-> TRUE]),
                          !.pushed = @ \o s,
                          !.n = @ + 1]
    /\ UNCHANGED tx_others

\* it_handle_at_byte_tx: pop_byte while the buffer is not empty.  Past the
\* end of a string the bytes are whatever lies there: the run is not
\* followed any further.
TxPop ==
    /\ ~string_buf_tx_is_empty(txs.buf)
    /\ \A i \in 1..Len(txs.popped) : txs.popped[i] # "<?>"
    /\ LET p == string_buf_tx_pop_byte(txs.buf)
       IN txs' = [txs EXCEPT !.buf = p.buf, !.popped = Append(@, p.byte)]
    /\ UNCHANGED tx_others

\* tx_buf.clean()
TxClean ==
    /\ txs.buf.m_strings # <<>>
    /\ txs' = [txs EXCEPT !.buf = string_buf_tx_clean(@)]
    /\ UNCHANGED tx_others

TxNext ==
    \/ \E s \in TxStrings : TxPush(s)
    \/ TxPop
    \/ TxClean

SpecTx == TxInit /\ [][TxNext]_vars

\* ------------------------------------------------------------------------
\* C13 - pop_byte gives back the strings that were pushed
\* ------------------------------------------------------------------------
RefIsPrefix(p, s) == Len(p) <= Len(s) /\ \A i \in 1..Len(p) : p[i] = s[i]

\* C13: the bytes returned by pop_byte are, in order, a prefix of the
\* concatenation of the strings pushed so far, and is_empty() is true
\* exactly when the whole concatenation has been returned.
C13_PopYieldsPushedBytes ==
    /\ RefIsPrefix(txs.popped, txs.pushed)
    /\ string_buf_tx_is_empty(txs.buf) <=> txs.popped = txs.pushed

\* --- the peripheral -------------------------------------------------------
\* what a caller passes as payload and as prompt message
SendPayload == <<"1">>

PromptMsg(t) == <<"m", ToString(t)>>

PromptPolicy(t) == IF t = 1 THEN "ctrl_z" ELSE "crlf"

\* the peripheral waits for the text that follows its prompt
AwaitInput == <<"<input>">>

data_line(c) == IF c = cmd_cr THEN line_cr_a ELSE line_crc_c

\* the replies of the peripheral to a command: data and OK, or a CME
\* error; to a prompted command: the prompt and OK after the text, or ERROR
Scripts(c, form) ==
    IF form = "prompted"
    THEN { <<str_PROMPT, AwaitInput, str_OK>>, <<str_ERROR>> }
    ELSE { <<data_line(c), str_OK>>, <<line_cme>> }

NoLine == [text |-> <<>>, origin |-> 0]

\* (waited: the ticks the call has spent blocked on the result queue)
NoRequest == [cmd |-> at_cmd_none, form |-> "none", ticks |-> 0, id |-> 0, waited |-> 0]

NewCall(t, command, form) ==
    [task |-> t, cmd |-> command, form |-> form,
     status |-> "run", payload |-> <<>>, from |-> 0,
     script |-> <<>>, heard |-> FALSE, delivered |-> FALSE]

\* what an out-of-bounds read of a queue can give
DeputeGarbage == EngineCmds

\* (the result field of what is read may hold any at_err, or none)
ResultGarbage ==
    { [command |-> c, result |-> r, payload |-> <<>>, origin |-> 0] :
        c \in EngineCmds, r \in {"ok", "unknown"} }

\* a caller between taking at_mux and returning
InFlight == {"depute", "give", "tx", "tx_more", "tx_end", "receive", "read"}

Started == Len(calls) + Cardinality({t \in Callers : pc[t] = "lock"})

\* callers are alike: the next call is made by the first idle one
NextCaller(t) == pc[t] = "idle" /\ \A u \in 1..(t - 1) : pc[u] # "idle"

\* A test that also takes the prompt request for a terminal.
Terminal_or_prompt == {"ok", "error", "cme_error", "prompt_request"}

Terminal == {"ok", "error", "cme_error"}

\* the line ends the reply of call k
EndsReply(l) ==
    /\ l.origin > 0
    /\ calls[l.origin].script # <<>>
    /\ l.text = calls[l.origin].script[Len(calls[l.origin].script)]

\* a result for the command is put into the result queue: noted in the
\* calls for that command that are under way
ResultDelivered(command) ==
    [k \in 1..Len(calls) |->
        IF calls[k].status = "run" /\ calls[k].cmd = command
        THEN [calls[k] EXCEPT !.delivered = TRUE]
        ELSE calls[k]]

Init ==
    /\ cmd_handler = [cmd |-> <<>>, msg |-> <<>>]
    /\ response_payload = <<>>
    /\ awaited_cmd = at_cmd_none
    /\ h_last = NoCall
    /\ h_segs = <<>>
    /\ h_plain = TRUE
    /\ h_strict = TRUE
    /\ h_len = 0
    /\ h_regs = 0
    /\ h_removed = {}
    /\ BuffersIdle
    /\ pc = [t \in Callers |-> "idle"]
    /\ call = [t \in Callers |-> NoRequest]
    /\ wait_left = [t \in Callers |-> 0]
    /\ at_mux = 0
    /\ at_cmd_handler_mux = 0
    /\ at_depute_work_queue = os_queue_init
    /\ at_work_result_queue = os_queue_init
    /\ at_prompt_data = [policy |-> "none", prompt_message |-> <<>>, valid |-> FALSE]
    /\ tx_buf = string_buf_tx_init
    /\ tx_it_enabled = FALSE
    /\ wire = <<>>
    /\ rx_buf = <<>>
    /\ rx_notif = 0
    /\ rx = [pc |-> "idle", notif_num |-> 0, response |-> NoLine, res |-> "unknown",
             suffix |-> <<>>, prompts |-> 0]
    /\ calls = <<>>
    /\ periph = <<>>

\* --- caller tasks ---------------------------------------------------------
\* os_lockguard guard(at_mux) of at_send_and_get_response
take_at_mux(t, command, form) ==
    /\ os_lockguard_ctor(at_mux)
    /\ at_mux' = t
    /\ calls' = Append(calls, NewCall(t, command, form))
    /\ call' = [call EXCEPT ![t] = [cmd |-> command, form |-> form, ticks |-> 0,
                                    id |-> Len(calls) + 1, waited |-> 0]]
    /\ pc' = [pc EXCEPT ![t] = "depute"]

\* at_send(command, command_type, ticks_to_wait): the prefix is prepared and
\* at_send_and_get_response takes at_mux
at_send(t, command) ==
    /\ NextCaller(t)
    /\ Started < MaxCalls
    /\ take_at_mux(t, command, "typed")
    /\ UNCHANGED <<handler_vars, test_vars, wait_left, at_cmd_handler_mux,
                   at_depute_work_queue, at_work_result_queue, at_prompt_data,
                   tx_buf, tx_it_enabled, wire, rx_buf, rx_notif, rx, periph>>

\* at_send_prompted: at_prompt_data.set(policy, prompt_message), before
\* at_send_and_get_response is entered
at_send_prompted(t) ==
    /\ NextCaller(t)
    /\ Started < MaxCalls
    /\ at_prompt_data' = [policy |-> PromptPolicy(t), prompt_message |-> PromptMsg(t),
                          valid |-> TRUE]
    /\ pc' = [pc EXCEPT ![t] = "lock"]
    /\ UNCHANGED <<handler_vars, test_vars, call, wait_left, at_mux, at_cmd_handler_mux,
                   at_depute_work_queue, at_work_result_queue,
                   tx_buf, tx_it_enabled, wire, rx_buf, rx_notif, rx, calls, periph>>

\* at_send_prompted: at_send_and_get_response takes at_mux
send_prompted_lock(t, command) ==
    /\ pc[t] = "lock"
    /\ take_at_mux(t, command, "prompted")
    /\ UNCHANGED <<handler_vars, test_vars, wait_left, at_cmd_handler_mux,
                   at_depute_work_queue, at_work_result_queue, at_prompt_data,
                   tx_buf, tx_it_enabled, wire, rx_buf, rx_notif, rx, periph>>

\* at_depute_work_queue.overwrite(command): the store under the queue's mutex
send_depute(t) ==
    /\ pc[t] = "depute"
    /\ at_depute_work_queue' = os_queue_overwrite_store(at_depute_work_queue, call[t].cmd)
    /\ pc' = [pc EXCEPT ![t] = "give"]
    /\ UNCHANGED <<handler_vars, test_vars, call, wait_left, at_mux, at_cmd_handler_mux,
                   at_work_result_queue, at_prompt_data,
                   tx_buf, tx_it_enabled, wire, rx_buf, rx_notif, rx, calls, periph>>

\* at_depute_work_queue.overwrite(command): xSemaphoreGive
send_depute_give(t) ==
    /\ pc[t] = "give"
    /\ at_depute_work_queue' = os_queue_overwrite_give(at_depute_work_queue)
    /\ pc' = [pc EXCEPT ![t] = "tx"]
    /\ UNCHANGED <<handler_vars, test_vars, call, wait_left, at_mux, at_cmd_handler_mux,
                   at_work_result_queue, at_prompt_data,
                   tx_buf, tx_it_enabled, wire, rx_buf, rx_notif, rx, calls, periph>>

\* tx_buf.clean() and the first push_string of transmit_command; with one
\* string the interrupt is enabled and the wait for the result begins
send_transmit(t, ticks) ==
    /\ pc[t] = "tx"
    /\ call[t].form = "typed" \/ ticks = 0
    /\ LET fr == <<"cmd", call[t].id>>
           cleaned == string_buf_tx_clean(tx_buf)
       IN IF call[t].form = "typed"
          THEN /\ tx_buf' = string_buf_tx_push_string(cleaned,
                      [fr |-> fr, last |-> TRUE,
                       text |-> prepare_cmd_prefix_to_transmit(call[t].cmd, "read") \o crlf])
               /\ tx_it_enabled' = TRUE
               /\ pc' = [pc EXCEPT ![t] = "receive"]
               /\ wait_left' = [wait_left EXCEPT ![t] = ticks]
               /\ call' = [call EXCEPT ![t].ticks = ticks]
          ELSE /\ tx_buf' = string_buf_tx_push_string(cleaned,
                      [fr |-> fr, last |-> FALSE,
                       text |-> prepare_cmd_prefix_to_transmit(call[t].cmd, "write")])
               /\ pc' = [pc EXCEPT ![t] = "tx_more"]
               /\ UNCHANGED <<tx_it_enabled, wait_left, call>>
    /\ UNCHANGED <<handler_vars, test_vars, at_mux, at_cmd_handler_mux,
                   at_depute_work_queue, at_work_result_queue, at_prompt_data,
                   wire, rx_buf, rx_notif, rx, calls, periph>>

\* transmit_command(prefix, payload): push_string(payload)
send_transmit_payload(t) ==
    /\ pc[t] = "tx_more"
    /\ tx_buf' = string_buf_tx_push_string(tx_buf,
                     [fr |-> <<"cmd", call[t].id>>, last |-> FALSE, text |-> SendPayload])
    /\ pc' = [pc EXCEPT ![t] = "tx_end"]
    /\ UNCHANGED <<handler_vars, test_vars, call, wait_left, at_mux, at_cmd_handler_mux,
                   at_depute_work_queue, at_work_result_queue, at_prompt_data,
                   tx_it_enabled, wire, rx_buf, rx_notif, rx, calls, periph>>

\* transmit_command(prefix, payload): push_string("\r\n"), hw_at_enable_tx_it()
send_transmit_end(t, ticks) ==
    /\ pc[t] = "tx_end"
    /\ tx_buf' = string_buf_tx_push_string(tx_buf,
                     [fr |-> <<"cmd", call[t].id>>, last |-> TRUE, text |-> crlf])
    /\ tx_it_enabled' = TRUE
    /\ pc' = [pc EXCEPT ![t] = "receive"]
    /\ wait_left' = [wait_left EXCEPT ![t] = ticks]
    /\ call' = [call EXCEPT ![t].ticks = ticks]
    /\ UNCHANGED <<handler_vars, test_vars, at_mux, at_cmd_handler_mux,
                   at_depute_work_queue, at_work_result_queue, at_prompt_data,
                   wire, rx_buf, rx_notif, rx, calls, periph>>

\* the caller returns: the guard's destructor runs
send_return(t, status, payload, from) ==
    /\ at_mux' = os_lockguard_dtor(at_mux)
    /\ calls' = [calls EXCEPT ![call[t].id].status = status,
                              ![call[t].id].payload = payload,
                              ![call[t].id].from = from]
    /\ call' = [call EXCEPT ![t] = NoRequest]
    /\ pc' = [pc EXCEPT ![t] = "idle"]
    /\ wait_left' = [wait_left EXCEPT ![t] = 0]

\* at_work_result_queue.receive(ticks_to_wait): xSemaphoreTake succeeds
send_receive(t) ==
    /\ pc[t] = "receive"
    /\ at_work_result_queue.sem > 0
    /\ at_work_result_queue' = os_queue_receive_take(at_work_result_queue)
    /\ pc' = [pc EXCEPT ![t] = "read"]
    /\ wait_left' = [wait_left EXCEPT ![t] = 0]
    /\ UNCHANGED <<handler_vars, test_vars, call, at_mux, at_cmd_handler_mux,
                   at_depute_work_queue, at_prompt_data,
                   tx_buf, tx_it_enabled, wire, rx_buf, rx_notif, rx, calls, periph>>

\* a tick that takes nothing from the time left to wait
send_tick_stalled(t) ==
    /\ pc[t] = "receive"
    /\ at_work_result_queue.sem = 0
    /\ wait_left[t] > 0
    /\ UNCHANGED vars

\* a tick passes while the caller is blocked in xSemaphoreTake
send_tick(t) ==
    /\ pc[t] = "receive"
    /\ at_work_result_queue.sem = 0
    /\ wait_left[t] > 0
    /\ wait_left' = [wait_left EXCEPT ![t] = @ - 1]
    /\ call' = [call EXCEPT ![t].waited = @ + 1]
    /\ UNCHANGED <<handler_vars, test_vars, pc, at_mux, at_cmd_handler_mux,
                   at_depute_work_queue, at_work_result_queue, at_prompt_data,
                   tx_buf, tx_it_enabled, wire, rx_buf, rx_notif, rx, calls, periph>>

\* xSemaphoreTake gives up: return at_err::timeout
send_timeout(t) ==
    /\ pc[t] = "receive"
    /\ at_work_result_queue.sem = 0
    /\ wait_left[t] = 0
    /\ send_return(t, "timeout", <<>>, 0)
    /\ UNCHANGED <<handler_vars, test_vars, at_cmd_handler_mux,
                   at_depute_work_queue, at_work_result_queue, at_prompt_data,
                   tx_buf, tx_it_enabled, wire, rx_buf, rx_notif, rx, periph>>

\* receive reads the element; a result of another command sends the caller
\* back to receive(ticks_to_wait), a result of its command is returned
send_result(t) ==
    /\ pc[t] = "read"
    /\ \E g \in IF os_queue_receive_out_of_bounds(at_work_result_queue)
                THEN ResultGarbage ELSE {NoLine} :
         LET r == os_queue_receive_read(at_work_result_queue, g)
             p == r.value
         IN /\ at_work_result_queue' = r.queue
            /\ IF p.command # call[t].cmd
               THEN /\ pc' = [pc EXCEPT ![t] = "receive"]
                    /\ wait_left' = [wait_left EXCEPT ![t] = call[t].ticks]
                    /\ UNCHANGED <<call, at_mux, calls>>
               ELSE send_return(t, p.result, p.payload, p.origin)
    /\ UNCHANGED <<handler_vars, test_vars, at_cmd_handler_mux,
                   at_depute_work_queue, at_prompt_data,
                   tx_buf, tx_it_enabled, wire, rx_buf, rx_notif, rx, periph>>

\* --- interrupt handlers and the peripheral --------------------------------
\* The peripheral has received a whole frame: text it was waiting for after
\* its prompt, or a command, which it answers with one of its replies.
peripheral_frame(fr) ==
    IF periph # <<>> /\ Head(periph).text = AwaitInput
    THEN /\ periph' = Tail(periph)
         /\ UNCHANGED calls
    ELSE IF fr[1] = "cmd"
    THEN \E s \in Scripts(calls[fr[2]].cmd, calls[fr[2]].form) :
            /\ periph' = periph \o [i \in 1..Len(s) |-> [text |-> s[i], origin |-> fr[2]]]
            /\ calls' = [calls EXCEPT ![fr[2]].script = s]
    ELSE UNCHANGED <<periph, calls>>

\* it_handle_at_byte_tx, once for every byte of the current string: each
\* interrupt pops one byte and hands it to hw_at_send_byte.  (While a string
\* is being popped, push_string and clean leave it and the iterator alone.)
RECURSIVE it_tx_bytes(_, _)
it_tx_bytes(b, w) ==
    CHOOSE r \in UNION { { IF p.buf.m_byte_it = 0 \/ p.byte = "<?>"
                            THEN [buf |-> p.buf, wire |-> sent, fr |-> p.fr, last |-> p.last]
                            ELSE it_tx_bytes(p.buf, sent)
                            : sent \in {hw_at_send_byte(w, p)} }
                          : p \in {string_buf_tx_pop_byte(b)} } : TRUE

\* The interrupt that finds the buffer empty disables itself; after the
\* last byte of the buffer it follows at once.
it_handle_at_byte_tx ==
    /\ tx_it_enabled
    /\ IF string_buf_tx_is_empty(tx_buf)
       THEN /\ tx_it_enabled' = FALSE
            /\ UNCHANGED <<tx_buf, wire, periph, calls>>
       ELSE LET p == it_tx_bytes(tx_buf, wire)
            IN /\ tx_buf' = p.buf
               /\ wire' = p.wire
               /\ tx_it_enabled' = ~string_buf_tx_is_empty(p.buf)
               /\ IF p.last THEN peripheral_frame(p.fr) ELSE UNCHANGED <<periph, calls>>
    /\ UNCHANGED <<handler_vars, test_vars, pc, call, wait_left, at_mux, at_cmd_handler_mux,
                   at_depute_work_queue, at_work_result_queue, at_prompt_data,
                   rx_buf, rx_notif, rx>>

\* it_handle_at_byte_rx for the bytes of the peripheral's next line, up to
\* the byte that ends it: the line is in rx_buf and the RX task is notified
it_handle_at_byte_rx ==
    /\ periph # <<>>
    /\ Head(periph).text # AwaitInput
    /\ rx_buf' = Append(rx_buf, Head(periph))
    /\ rx_notif' = rx_notif + 1
    /\ periph' = Tail(periph)
    /\ UNCHANGED <<handler_vars, test_vars, pc, call, wait_left, at_mux, at_cmd_handler_mux,
                   at_depute_work_queue, at_work_result_queue, at_prompt_data,
                   tx_buf, tx_it_enabled, wire, rx, calls>>

\* --- the RX task ------------------------------------------------------------
\* at_rx_task up to the first step shared with a caller: ulTaskNotifyTake
\* when the notifications taken before are used up, pop_string (an empty
\* string is skipped), and xSemaphoreTake of at_depute_work_queue.receive(0)
rx_next_line ==
    /\ rx.pc = "idle"
    /\ rx.notif_num > 0 \/ rx_notif > 0
    /\ LET notif_num == IF rx.notif_num > 0 THEN rx.notif_num ELSE rx_notif
           response == Head(rx_buf)
           deputed == at_depute_work_queue.sem > 0
       IN /\ rx_notif' = IF rx.notif_num > 0 THEN rx_notif ELSE 0
          /\ rx_buf' = Tail(rx_buf)
          /\ IF Len(response.text) = 0
             THEN /\ rx' = [rx EXCEPT !.notif_num = notif_num - 1]
                  /\ UNCHANGED at_depute_work_queue
             ELSE /\ rx' = [rx EXCEPT !.notif_num = notif_num - 1,
                                      !.response = response,
                                      !.pc = IF deputed THEN "depute_read" ELSE "classify"]
                  /\ at_depute_work_queue' =
                         IF deputed THEN os_queue_receive_take(at_depute_work_queue)
                         ELSE at_depute_work_queue
    /\ UNCHANGED <<handler_vars, test_vars, pc, call, wait_left, at_mux, at_cmd_handler_mux,
                   at_work_result_queue, at_prompt_data,
                   tx_buf, tx_it_enabled, wire, calls, periph>>

\* handle_received_response: the element is read; the accumulator is
\* cleared and the command becomes the awaited one
rx_depute_read ==
    /\ rx.pc = "depute_read"
    /\ \E g \in IF os_queue_receive_out_of_bounds(at_depute_work_queue)
                THEN DeputeGarbage ELSE {at_cmd_none} :
         LET r == os_queue_receive_read(at_depute_work_queue, g)
         IN /\ at_depute_work_queue' = r.queue
            /\ awaited_cmd' = r.value
    /\ response_payload' = <<>>
    /\ rx' = [rx EXCEPT !.pc = "classify"]
    /\ UNCHANGED <<cmd_handler, test_vars, pc, call, wait_left, at_mux, at_cmd_handler_mux,
                   at_work_result_queue, at_prompt_data,
                   tx_buf, tx_it_enabled, wire, rx_buf, rx_notif, calls, periph>>

\* handle_received_response: cmd_handler.handle_received_response under
\* at_cmd_handler_mux
rx_classify ==
    /\ rx.pc = "classify"
    /\ os_lockguard_ctor(at_cmd_handler_mux)
    /\ \E g \in IF handle_received_response(rx.response.text, awaited_cmd, response_payload,
                                            cmd_handler, FALSE, <<>>).ub
                THEN Garbage ELSE {<<>>} :
         LET r == handle_received_response(rx.response.text, awaited_cmd, response_payload,
                                           cmd_handler, FALSE, g)
         IN /\ response_payload' = r.payload
            /\ cmd_handler' = r.handlers
            /\ rx' = [rx EXCEPT !.res = r.res,
                                !.pc = IF r.res \in Terminal THEN "publish"
                                       ELSE IF r.res = "prompt_request" THEN "prompt"
                                       ELSE "idle"]
    /\ at_cmd_handler_mux' = os_lockguard_dtor(at_cmd_handler_mux)
    /\ calls' = IF EndsReply(rx.response) /\ calls[rx.response.origin].status = "run"
                THEN [calls EXCEPT ![rx.response.origin].heard = TRUE]
                ELSE calls
    /\ UNCHANGED <<awaited_cmd, test_vars, pc, call, wait_left, at_mux,
                   at_depute_work_queue, at_work_result_queue, at_prompt_data,
                   tx_buf, tx_it_enabled, wire, rx_buf, rx_notif, periph>>

\* at_work_result_queue.overwrite(awaited_cmd, res, std::move(response_payload)):
\* the store under the queue's mutex
rx_publish ==
    /\ rx.pc = "publish"
    /\ at_work_result_queue' =
           os_queue_overwrite_store(at_work_result_queue,
               [command |-> awaited_cmd, result |-> rx.res, payload |-> response_payload,
                origin |-> rx.response.origin])
    /\ response_payload' = <<>>
    /\ rx' = [rx EXCEPT !.pc = "publish_give"]
    /\ calls' = ResultDelivered(awaited_cmd)
    /\ UNCHANGED <<cmd_handler, awaited_cmd, test_vars, pc, call, wait_left, at_mux,
                   at_cmd_handler_mux, at_depute_work_queue, at_prompt_data,
                   tx_buf, tx_it_enabled, wire, rx_buf, rx_notif, periph>>

\* at_work_result_queue.overwrite: xSemaphoreGive; awaited_cmd = at_cmd::none
rx_publish_give ==
    /\ rx.pc = "publish_give"
    /\ at_work_result_queue' = os_queue_overwrite_give(at_work_result_queue)
    /\ calls' = ResultDelivered(awaited_cmd)
    /\ awaited_cmd' = at_cmd_none
    /\ rx' = [rx EXCEPT !.pc = "idle"]
    /\ UNCHANGED <<cmd_handler, response_payload, test_vars, pc, call, wait_left, at_mux,
                   at_cmd_handler_mux, at_depute_work_queue, at_prompt_data,
                   tx_buf, tx_it_enabled, wire, rx_buf, rx_notif, periph>>

\* handle_prompt_request without the test of at_prompt_data.valid
handle_prompt_request_unchecked ==
    /\ rx.pc = "prompt"
    /\ rx' = [rx EXCEPT !.pc = "prompt_suffix",
                        !.prompts = @ + 1,
                        !.suffix = IF at_prompt_data.policy = "ctrl_z"
                                   THEN <<ctrl_z>> \o crlf
                                   ELSE IF at_prompt_data.policy = "crlf" THEN crlf
                                   ELSE <<>>]
    /\ tx_buf' = string_buf_tx_push_string(tx_buf,
           [fr |-> <<"prompt", rx.prompts + 1, rx.response.origin>>, last |-> FALSE,
            text |-> at_prompt_data.prompt_message])
    /\ at_prompt_data' = [at_prompt_data EXCEPT !.prompt_message = <<>>]
    /\ UNCHANGED <<handler_vars, test_vars, pc, call, wait_left, at_mux, at_cmd_handler_mux,
                   at_depute_work_queue, at_work_result_queue,
                   tx_it_enabled, wire, rx_buf, rx_notif, calls, periph>>

\* handle_prompt_request: nothing when the prompt data is not valid; else
\* the suffix is chosen and transmit_command pushes the prompt message
handle_prompt_request ==
    /\ rx.pc = "prompt"
    /\ IF ~at_prompt_data.valid
       THEN /\ rx' = [rx EXCEPT !.pc = "idle"]
            /\ UNCHANGED <<tx_buf, at_prompt_data>>
       ELSE /\ rx' = [rx EXCEPT !.pc = "prompt_suffix",
                                !.prompts = @ + 1,
                                !.suffix = IF at_prompt_data.policy = "ctrl_z"
                                           THEN <<ctrl_z>> \o crlf
                                           ELSE IF at_prompt_data.policy = "crlf" THEN crlf
                                           ELSE <<>>]
            /\ tx_buf' = string_buf_tx_push_string(tx_buf,
                   [fr |-> <<"prompt", rx.prompts + 1, rx.response.origin>>, last |-> FALSE,
                    text |-> at_prompt_data.prompt_message])
            /\ at_prompt_data' = [at_prompt_data EXCEPT !.prompt_message = <<>>]
    /\ UNCHANGED <<handler_vars, test_vars, pc, call, wait_left, at_mux, at_cmd_handler_mux,
                   at_depute_work_queue, at_work_result_queue,
                   tx_it_enabled, wire, rx_buf, rx_notif, calls, periph>>

\* handle_prompt_request: transmit_command pushes the suffix
prompt_transmit_suffix ==
    /\ rx.pc = "prompt_suffix"
    /\ tx_buf' = string_buf_tx_push_string(tx_buf,
           [fr |-> <<"prompt", rx.prompts, rx.response.origin>>, last |-> FALSE,
            text |-> rx.suffix])
    /\ rx' = [rx EXCEPT !.pc = "prompt_end", !.suffix = <<>>]
    /\ UNCHANGED <<handler_vars, test_vars, pc, call, wait_left, at_mux, at_cmd_handler_mux,
                   at_depute_work_queue, at_work_result_queue, at_prompt_data,
                   tx_it_enabled, wire, rx_buf, rx_notif, calls, periph>>

\* handle_prompt_request: transmit_command pushes "\r\n" and enables the
\* interrupt; at_prompt_data.valid = false
prompt_transmit_end ==
    /\ rx.pc = "prompt_end"
    /\ tx_buf' = string_buf_tx_push_string(tx_buf,
           [fr |-> <<"prompt", rx.prompts, rx.response.origin>>, last |-> TRUE, text |-> crlf])
    /\ tx_it_enabled' = TRUE
    /\ at_prompt_data' = [at_prompt_data EXCEPT !.valid = FALSE]
    /\ rx' = [rx EXCEPT !.pc = "idle"]
    /\ UNCHANGED <<handler_vars, test_vars, pc, call, wait_left, at_mux, at_cmd_handler_mux,
                   at_depute_work_queue, at_work_result_queue,
                   wire, rx_buf, rx_notif, calls, periph>>

Next ==
    \/ \E t \in Callers, c \in EngineCmds : at_send(t, c)
    \/ \E t \in Callers : at_send_prompted(t)
    \/ \E t \in Callers, c \in EngineCmds : send_prompted_lock(t, c)
    \/ \E t \in Callers : send_depute(t)
    \/ \E t \in Callers : send_depute_give(t)
    \/ \E t \in Callers, ticks \in 0..MaxTicks : send_transmit(t, ticks)
    \/ \E t \in Callers : send_transmit_payload(t)
    \/ \E t \in Callers, ticks \in 0..MaxTicks : send_transmit_end(t, ticks)
    \/ \E t \in Callers : send_receive(t)
    \/ \E t \in Callers : send_tick(t)
    \/ \E t \in Callers : send_timeout(t)
    \/ \E t \in Callers : send_result(t)
    \/ it_handle_at_byte_tx
    \/ it_handle_at_byte_rx
    \/ rx_next_line
    \/ rx_depute_read
    \/ rx_classify
    \/ rx_publish
    \/ rx_publish_give
    \/ handle_prompt_request
    \/ prompt_transmit_suffix
    \/ prompt_transmit_end

Spec == Init /\ [][Next]_vars

\* ------------------------------------------------------------------------
\* What a call should return, read off the reply the peripheral gave it
\* ------------------------------------------------------------------------
RefReplyClass(s) ==
    IF s[Len(s)] = str_OK THEN "ok"
    ELSE IF s[Len(s)] = str_ERROR THEN "error"
    ELSE "cme_error"

RefReplyData(c, s) == SelectSeq(s, LAMBDA l : l # AwaitInput /\ RefIsData(l, c))

\* the text of a '+CME ERROR' terminal after these ten characters
RefCmeRest(s) ==
    IF RefHasPrefix(s[Len(s)], cme_error_str)
    THEN << [i \in 1..(Len(s[Len(s)]) - Len(cme_error_str)) |-> s[Len(s)][Len(cme_error_str) + i] ] >>
    ELSE <<>>

RefReplyPayload(c, s) ==
    RefFold(<<>>, [i \in 1..Len(RefReplyData(c, s)) |-> RefStrip(RefReplyData(c, s)[i], c)]
                  \o RefCmeRest(s))

CallIds == 1..Len(calls)

AfterTimeout(k) == \E j \in 1..(k - 1) : calls[j].status = "timeout"

\* ------------------------------------------------------------------------
\* C1 - a reply received in time is what send returns
\* ------------------------------------------------------------------------
\* C1: when the RX task has classified the terminal line of the reply to a
\* call while the call was under way, and the call returns a result, the
\* result is the classification of that terminal line and the payload of
\* the reply's data lines.
C1_ReplyInTimeIsReturned ==
    \A k \in CallIds :
        (calls[k].heard /\ calls[k].status \in Terminal)
            => /\ calls[k].status = RefReplyClass(calls[k].script)
               /\ calls[k].payload = RefReplyPayload(calls[k].cmd, calls[k].script)

\* ------------------------------------------------------------------------
\* C2 - outbound frames are never interleaved
\* ------------------------------------------------------------------------
\* C2: the bytes handed to the TX interface are a concatenation of complete
\* frames: a frame's bytes are contiguous, and the next frame begins only
\* after the last byte of the one before.
C2_FramesNeverInterleaved ==
    /\ \A i \in 1..(Len(wire) - 1) : wire[i].done
    /\ \A i, j \in 1..Len(wire) : i # j => wire[i].fr # wire[j].fr

\* ------------------------------------------------------------------------
\* C3 - at most one command in flight
\* ------------------------------------------------------------------------
\* C3: at most one caller task is between taking the send-serialising mutex
\* and returning.
C3_AtMostOneInFlight == Cardinality({t \in Callers : pc[t] \in InFlight}) <= 1

\* one caller waits for its result while another is blocked on the mutex
C3_Witness ==
    \E t, u \in Callers :
        /\ pc[t] = "receive" /\ at_mux = t
        /\ pc[u] = "lock"

\* ------------------------------------------------------------------------
\* C4 - the mutex is released on every return path
\* ------------------------------------------------------------------------
\* C4: a caller that is not between taking the mutex and returning does not
\* hold it (whatever it returned); with no call under way the mutex is free,
\* so a caller blocked on it can take it.
C4_MutexReleasedOnReturn ==
    /\ \A t \in Callers : pc[t] \notin InFlight => at_mux # t
    /\ (\A t \in Callers : pc[t] \notin InFlight) => at_mux = 0

\* a call has returned TIMEOUT, the next one a result, and the mutex is free
C4_Witness ==
    /\ Len(calls) = 2
    /\ calls[1].status = "timeout"
    /\ calls[2].status \in Terminal
    /\ at_mux = 0

\* ------------------------------------------------------------------------
\* C5 - a late terminal of a timed-out command is discarded
\* ------------------------------------------------------------------------
\* C5: after a call has returned TIMEOUT, every result other than TIMEOUT
\* returned by a later call stems from a terminal line the peripheral sent
\* in answer to that later call.
C5_LateTerminalIsDiscarded ==
    \A k \in CallIds :
        (AfterTimeout(k) /\ calls[k].status \in Terminal) => calls[k].from = k

\* ------------------------------------------------------------------------
\* C6 - a timeout does not wedge the engine
\* ------------------------------------------------------------------------
\* C6: a call that follows a timed-out call, whose reply reached the RX task
\* while it was under way and which returns a result, returns the
\* classification of its own terminal line and exactly the payload of its
\* own data lines.
C6_CallAfterTimeoutGetsItsReply ==
    \A k \in CallIds :
        (AfterTimeout(k) /\ calls[k].heard /\ calls[k].status # "run"
            /\ calls[k].status # "timeout")
            => /\ calls[k].from = k
               /\ calls[k].status = RefReplyClass(calls[k].script)
               /\ calls[k].payload = RefReplyPayload(calls[k].cmd, calls[k].script)

\* ------------------------------------------------------------------------
\* C7 - no result within the timeout: TIMEOUT
\* ------------------------------------------------------------------------
\* C7: a call during which no result for its command was put into the
\* result queue returns TIMEOUT.
C7_NoResultMeansTimeout ==
    \A k \in CallIds :
        (calls[k].status # "run" /\ ~calls[k].delivered) => calls[k].status = "timeout"

\* ------------------------------------------------------------------------
\* C14 - the awaited command while a command is in flight
\* ------------------------------------------------------------------------
\* a caller that has completed at_depute_work_queue.overwrite and has not
\* returned yet
Deputed == {"tx", "tx_more", "tx_end", "receive", "read"}

\* C14: from the moment a call has written its command to the hand-off
\* queue until it returns, the RX task's awaited command is that command.
C14_AwaitedWhileInFlight ==
    \A t \in Callers : pc[t] \in Deputed => awaited_cmd = call[t].cmd

\* ------------------------------------------------------------------------
\* C15 - the awaited command when no call is in progress
\* ------------------------------------------------------------------------
\* C15: when no send call is in progress (before the first call, after a
\* call returned a result, after a call returned TIMEOUT) the awaited
\* command is none.
C15_NoneWhenNoCall ==
    (\A t \in Callers : pc[t] = "idle") => awaited_cmd = at_cmd_none

\* ------------------------------------------------------------------------
\* C16 - what a caller can get back
\* ------------------------------------------------------------------------
\* C16: every value returned by send / send_prompted is OK, ERROR,
\* CME_ERROR or TIMEOUT.
C16_OnlyFourResults ==
    \A k \in CallIds : calls[k].status \in {"run", "ok", "error", "cme_error", "timeout"}

\* ------------------------------------------------------------------------
\* C17 - what is published to the result queue, and when
\* ------------------------------------------------------------------------
RefTerminals == {"ok", "error", "cme_error"}

\* C17: a value is written to the result queue only when the line at hand
\* was classified OK, ERROR or CME_ERROR with a command awaited; the value
\* is (awaited command, classification, accumulated payload); once it is
\* published the accumulator is empty and the awaited command is none.
C17_PublishOnlyTerminals ==
    [][/\ (/\ at_work_result_queue'.m_queue # at_work_result_queue.m_queue
            /\ at_work_result_queue'.m_queue # <<>>)
           => /\ rx.res \in RefTerminals
              /\ awaited_cmd # at_cmd_none
              /\ at_work_result_queue'.m_queue[1].command = awaited_cmd
              /\ at_work_result_queue'.m_queue[1].result = rx.res
              /\ at_work_result_queue'.m_queue[1].payload = response_payload
              /\ response_payload' = <<>>
       /\ (rx.pc = "publish_give" /\ rx'.pc # "publish_give")
           => /\ awaited_cmd' = at_cmd_none
              /\ response_payload' = <<>>]_vars

\* a reply with a data line has been published and not taken yet
C17_Witness ==
    /\ rx.pc = "idle"
    /\ at_work_result_queue.sem = 1
    /\ at_work_result_queue.m_queue # <<>>
    /\ at_work_result_queue.m_queue[1].result = "ok"
    /\ at_work_result_queue.m_queue[1].payload # <<>>
    /\ awaited_cmd = at_cmd_none
    /\ response_payload = <<>>

\* ------------------------------------------------------------------------
\* C18 - the reply to the peripheral's prompt
\* ------------------------------------------------------------------------
RefTerminator(policy) == IF policy = "ctrl_z" THEN <<ctrl_z, cr, lf>> ELSE <<cr, lf>>

\* the frames of prompt replies sent for the '>' the peripheral gave call k
RefPromptFrames(k) ==
    {i \in 1..Len(wire) : wire[i].fr[1] = "prompt" /\ wire[i].fr[3] = k}

\* C18: the bytes transmitted for the '>' that answers a prompted call are
\* the call's prompt message followed by the terminator of its policy, they
\* come after the call's primary frame, a call gets one such reply at most,
\* and the call that got OK after its prompt returns OK.
C18_PromptReply ==
    \A k \in 1..Len(calls) :
        /\ Cardinality(RefPromptFrames(k)) <= 1
        /\ \A i \in RefPromptFrames(k) :
              /\ \E j \in 1..(i - 1) : wire[j].fr = <<"cmd", k>> /\ wire[j].done
              /\ wire[i].done =>
                    wire[i].bytes = PromptMsg(calls[k].task)
                                        \o RefTerminator(PromptPolicy(calls[k].task))
        /\ (/\ calls[k].form = "prompted"
            /\ calls[k].status \in Terminal
            /\ calls[k].script # <<>>
            /\ calls[k].script[Len(calls[k].script)] = str_OK) => calls[k].status = "ok"

\* ------------------------------------------------------------------------
\* C19 - a prompt with no valid prompt data
\* ------------------------------------------------------------------------
\* C19: when the RX task handles a line classified as a prompt request and
\* the prompt data is not valid, nothing is pushed to the TX buffer, the TX
\* interrupt is not enabled, nothing is published, and the awaited command,
\* the payload accumulator and the prompt data stay as they are.
C19_InvalidPromptDropped ==
    [][(rx.pc = "prompt" /\ rx'.pc # "prompt" /\ ~at_prompt_data.valid)
          => /\ rx'.pc = "idle"
             /\ UNCHANGED <<tx_buf, tx_it_enabled, at_work_result_queue, awaited_cmd,
                            response_payload, at_prompt_data>>]_vars

\* the one prompt reply transmitted so far answered the '>' given to call 1;
\* the '>' given to call 2 has been handled since, and nothing went out
C19_Witness ==
    /\ rx.pc = "idle"
    /\ rx.res = "prompt_request"
    /\ rx.response.origin = 2
    /\ rx.prompts = 1
    /\ \E i \in 1..Len(wire) : wire[i].fr = <<"prompt", 1, 1>>
    /\ ~at_prompt_data.valid

\* ------------------------------------------------------------------------
\* C20 - the time a call spends waiting for its result
\* ------------------------------------------------------------------------
\* C20: within one call the ticks spent blocked on the result queue never
\* exceed the ticks_to_wait of the call, also when a result of another
\* command was discarded on the way.
C20_WaitWithinTimeout ==
    \A t \in Callers : call[t].waited <= call[t].ticks

\* ------------------------------------------------------------------------
\* C21 - which lines invoke an extended-command handler
\* ------------------------------------------------------------------------
\* the command the handler with this id was registered for
RefCmdOf(id, hs) == (CHOOSE h \in {hs[i] : i \in 1..Len(hs)} : h.id = id).command

\* C21: an extended-command handler registered for command c is invoked
\* only for a line of the form '+' name(c) ':' rest.
C21_InvokedOnlyForTaggedLine ==
    \A k \in 1..Len(h_last.invoked) :
        h_last.invoked[k].kind = "cmd"
            => RefHasPrefix(h_last.line,
                            RefTag(RefCmdOf(h_last.invoked[k].id, h_last.handlers.cmd)))

\* ------------------------------------------------------------------------
\* C22 - what the callback of an extended-command handler is given
\* ------------------------------------------------------------------------
\* the line without the first n characters
RefDrop(l, n) == [i \in 1..(Len(l) - n) |-> l[n + i]]

\* the line without '+<name>:' and without the one space that may follow
RefRest(l, c) ==
    LET n == Len(RefTag(c))
    IN IF Len(l) > n /\ l[n + 1] = " " THEN RefDrop(l, n + 1) ELSE RefDrop(l, n)

\* C22: the callback of the extended-command handler invoked for a line
\* '+<name>:...' of its command is given the line without '+<name>:' and
\* without the one space that may follow, otherwise unchanged; the line is
\* reported to the caller as unknown, a non-terminal classification.
C22_CallbackGetsStrippedLine ==
    \A k \in 1..Len(h_last.invoked) :
        LET c == RefCmdOf(h_last.invoked[k].id, h_last.handlers.cmd)
        IN (h_last.invoked[k].kind = "cmd" /\ RefHasPrefix(h_last.line, RefTag(c)))
              => /\ h_last.invoked[k].arg = RefRest(h_last.line, c)
                 /\ h_last.res = "unknown"
                 /\ ~h_last.ub

\* '+CR: a' was dispatched to the handler of CR, which was given 'a'
C22_Witness ==
    /\ h_last.line = line_cr_a
    /\ Len(h_last.invoked) = 1
    /\ h_last.invoked[1].kind = "cmd"
    /\ RefCmdOf(h_last.invoked[1].id, h_last.handlers.cmd) = cmd_cr
    /\ h_last.invoked[1].arg = <<"a">>

\* ------------------------------------------------------------------------
\* C23 - the classification of a line while a command is awaited
\* ------------------------------------------------------------------------
RefClassify(l, c) ==
    IF RefHasPrefix(l, at_prefix) THEN "unknown"
    ELSE IF l = <<"O", "K">> THEN "ok"
    ELSE IF l = <<"E", "R", "R", "O", "R">> THEN "error"
    ELSE IF l = <<">">> THEN "prompt_request"
    ELSE IF RefHasPrefix(l, <<"+", "C", "M", "E", " ", "E", "R", "R", "O", "R">>) THEN "cme_error"
    ELSE IF c \in RefExtended /\ (l[1] # "+" \/ RefHasPrefix(Tail(l), cmd_name(c)))
         THEN "handling_cmd"
    ELSE "unknown"

\* C23: while a command is awaited every line is classified as the
\* reference says (echo, OK, ERROR, prompt, CME error, data of an awaited
\* extended command, unsolicited, tested in this order), and a line
\* classified unknown leaves the accumulator as it was.
C23_ClassifierAgreesWithReference ==
    [][(h_len' = h_len + 1 /\ awaited_cmd # at_cmd_none)
          => /\ h_last'.res = RefClassify(h_last'.line, awaited_cmd)
             /\ h_last'.res = "unknown" => response_payload' = response_payload]_vars

\* with CR awaited and data accumulated, a line of the basic command H was
\* classified unknown
C23_Witness ==
    /\ awaited_cmd = cmd_cr
    /\ h_last.line = line_h
    /\ h_last.res = "unknown"
    /\ response_payload # <<>>
    /\ h_len = 3

\* ------------------------------------------------------------------------
\* C24 - lines without '+' while an extended command is awaited
\* ------------------------------------------------------------------------
RefIsBare(l) ==
    /\ l[1] # "+"
    /\ ~RefHasPrefix(l, at_prefix)
    /\ l \notin {<<"O", "K">>, <<"E", "R", "R", "O", "R">>, <<">">>}

\* C24: while an extended command is awaited, a line that does not start
\* with '+' and is no echo, OK, ERROR or '>' is appended unchanged to the
\* accumulator as data of the awaited command; no handler is invoked for it
\* and the handler lists stay as they are, also when it is a message with a
\* registered handler.
C24_BareLineIsData ==
    [][(h_len' = h_len + 1 /\ awaited_cmd \in RefExtended /\ RefIsBare(h_last'.line))
          => /\ h_last'.res = "handling_cmd"
             /\ response_payload' = IF response_payload = <<>> THEN h_last'.line
                                     ELSE response_payload \o <<cr, lf>> \o h_last'.line
             /\ h_last'.invoked = <<>>
             /\ cmd_handler' = cmd_handler]_vars

\* RING arrived after a data line of the awaited command while a handler
\* for RING was registered
C24_Witness ==
    /\ awaited_cmd = cmd_cr
    /\ h_last.line = line_ring
    /\ \E i \in 1..Len(cmd_handler.msg) : cmd_handler.msg[i].message = msg_ring
    /\ h_last.invoked = <<>>
    /\ response_payload = <<"a">> \o crlf \o line_ring

\* ------------------------------------------------------------------------
\* C25 - a line of the awaited command is data, not an unsolicited line
\* ------------------------------------------------------------------------
\* the line '+<name>:...' of the awaited command was fed in this step
RefOwnLineFed(cs) ==
    /\ h_len' = h_len + 1
    /\ awaited_cmd \in cs
    /\ RefHasPrefix(h_last'.line, RefTag(awaited_cmd))

\* the line was accumulated, no handler was invoked, all stay registered
RefAccumulatedOnly ==
    /\ h_last'.res = "handling_cmd"
    /\ response_payload' = IF response_payload = <<>> THEN RefRest(h_last'.line, awaited_cmd)
                            ELSE response_payload \o <<cr, lf>> \o RefRest(h_last'.line, awaited_cmd)
    /\ h_last'.invoked = <<>>
    /\ cmd_handler' = cmd_handler

\* C25 as stated: while any command c is awaited, a line '+<name(c)>:...'
\* is accumulated as data of c, and a handler registered for c is not
\* invoked for it and stays registered.
C25_OwnLineIsData == [][RefOwnLineFed(RefCmds) => RefAccumulatedOnly]_vars

\* C25 amended: the same while an extended command c is awaited.
C25_OwnLineOfExtendedIsData == [][RefOwnLineFed(RefExtended) => RefAccumulatedOnly]_vars

\* '+CR: a' was fed while CR was awaited and a handler for CR was
\* registered: 'a' is in the accumulator, the handler is still there
C25_Witness ==
    /\ awaited_cmd = cmd_cr
    /\ h_last.line = line_cr_a
    /\ h_last.res = "handling_cmd"
    /\ h_last.invoked = <<>>
    /\ response_payload = <<"a">>
    /\ \E i \in 1..Len(cmd_handler.cmd) : cmd_handler.cmd[i].command = cmd_cr

\* ------------------------------------------------------------------------
\* prepare_cmd_prefix_to_transmit called on its own, as the unit tests call
\* it: pfx is the list of the calls made, each with what it returned.
\* ------------------------------------------------------------------------
MaxPrefixCalls == 2

\* the commands of the table: 'at' and the configured ones
TableCmds == 0..(number_of_commands - 1)

at_cmd_type == {"exec", "write", "read", "test"}

PfxInit ==
    /\ pfx = <<>>
    /\ rxf = <<>> /\ txs = <<>>
    /\ cmd_handler = <<>> /\ response_payload = <<>> /\ awaited_cmd = at_cmd_none
    /\ h_last = <<>> /\ h_segs = <<>> /\ h_plain = TRUE /\ h_strict = TRUE
    /\ h_len = 0 /\ h_regs = 0 /\ h_removed = {}
    /\ EngineIdle

PfxCall(command, type) ==
    /\ Len(pfx) < MaxPrefixCalls
    /\ pfx' = Append(pfx, [command |-> command, type |-> type,
                           prefix |-> prepare_cmd_prefix_to_transmit(command, type)])
    /\ UNCHANGED <<handler_vars, h_last, h_segs, h_plain, h_strict, h_len, h_regs, h_removed,
                   rxf, txs, engine_vars>>

PfxNext == \E command \in TableCmds, type \in at_cmd_type : PfxCall(command, type)

SpecPrefix == PfxInit /\ [][PfxNext]_vars

\* ------------------------------------------------------------------------
\* C26 - the prefix of a command frame
\* ------------------------------------------------------------------------
RefUpperName(command) ==
    CASE command = 0 -> <<>>
      [] command = 1 -> <<"H">>
      [] command = 2 -> <<"C", "R">>
      [] command = 3 -> <<"C", "R", "C">>

RefSuffix(type) ==
    CASE type = "exec" -> <<>>
      [] type = "write" -> <<"=">>
      [] type = "read" -> <<"?">>
      [] type = "test" -> <<"=", "?">>

RefPrefix(command, type) ==
    <<"A", "T">> \o (IF command \in {2, 3} THEN <<"+">> ELSE <<>>)
                 \o RefUpperName(command) \o RefSuffix(type)

\* C26: for every command of the table and every command type the prefix
\* is 'AT', '+' if and only if the command is extended, the name in upper
\* case and the suffix of the type (none, '=', '?', '=?'); it holds no CR
\* and no LF, and for the command 'at' it is 'AT' and the suffix.
C26_PrefixIsAsTabulated ==
    \A i \in 1..Len(pfx) :
        /\ pfx[i].prefix = RefPrefix(pfx[i].command, pfx[i].type)
        /\ \A k \in 1..Len(pfx[i].prefix) : pfx[i].prefix[k] \notin {cr, lf}
        /\ pfx[i].command = cmd_at => pfx[i].prefix = <<"A", "T">> \o RefSuffix(pfx[i].type)

\* the test of a basic command and the write of an extended one
C26_Witness ==
    /\ Len(pfx) = 2
    /\ pfx[1] = [command |-> cmd_h, type |-> "test", prefix |-> <<"A", "T", "H", "=", "?">>]
    /\ pfx[2] = [command |-> cmd_crc, type |-> "write",
                 prefix |-> <<"A", "T", "+", "C", "R", "C", "=">>]

\* ------------------------------------------------------------------------
\* C27 - the payload delivered with a CME error
\* ------------------------------------------------------------------------
RefCmePrefix == <<"+", "C", "M", "E", " ", "E", "R", "R", "O", "R">>

\* the segments accumulated for the awaited command (none for a basic one)
RefSegsSoFar == IF awaited_cmd \in RefExtended THEN h_segs ELSE <<>>

\* C27 as stated: after a line '+CME ERROR...' the payload is the segments
\* accumulated so far and the remainder of the line after '+CME ERROR' as
\* last segment, joined by CR-LF.
C27_CmePayloadIsJoinedSegments ==
    (h_last.res = "cme_error" /\ h_last.strict)
        => response_payload = RefJoin(Append(RefSegsSoFar, RefDrop(h_last.line, 10)))

\* C27 amended: a line '+CME ERROR...' fed while a command is awaited is
\* classified cme_error and the remainder of the line after the 10
\* characters '+CME ERROR' is put to the accumulator by the join rule: it
\* becomes the accumulator when that is empty, else CR-LF and the remainder
\* are appended.
C27_CmeRemainderJoinsAccumulator ==
    [][(h_len' = h_len + 1 /\ awaited_cmd # at_cmd_none /\ RefHasPrefix(h_last'.line, RefCmePrefix))
          => /\ h_last'.res = "cme_error"
             /\ response_payload' = IF response_payload = <<>> THEN RefDrop(h_last'.line, 10)
                                     ELSE response_payload \o <<cr, lf>> \o RefDrop(h_last'.line, 10)
             /\ h_last'.invoked = <<>>]_vars

\* '+CME ERROR: 3' after the data line '+CR: a' of the awaited command
C27_Witness ==
    /\ awaited_cmd = cmd_cr
    /\ h_last.res = "cme_error"
    /\ h_len = 2
    /\ response_payload = <<"a", cr, lf, ":", " ", "3">>

\* ------------------------------------------------------------------------
\* C28 - lines that arrive while nothing is awaited
\* ------------------------------------------------------------------------
\* C28: a line handled by the RX task while the awaited command is none is
\* reported unknown whatever it is: nothing is written to the result
\* queue, nothing is pushed to the TX buffer, the TX interrupt is not
\* enabled, and the accumulator, the prompt data and the awaited command
\* stay as they are.
C28_NothingAwaitedNothingPublished ==
    [][(rx.pc = "classify" /\ rx'.pc # "classify" /\ awaited_cmd = at_cmd_none)
          => /\ rx'.pc = "idle"
             /\ rx'.res = "unknown"
             /\ UNCHANGED <<at_work_result_queue, tx_buf, tx_it_enabled, response_payload,
                            at_prompt_data, awaited_cmd>>]_vars

\* the OK that ended a reply was handled while nothing was awaited
C28_Witness ==
    /\ rx.pc = "idle"
    /\ rx.response.text = str_OK
    /\ rx.res = "unknown"
    /\ awaited_cmd = at_cmd_none

\* ------------------------------------------------------------------------
\* The RX interrupt and the RX task on the framer (at_cmd.cpp): the
\* interrupt pushes a byte and notifies the task when the byte completes a
\* line; the task takes the notifications it has got and pops one string
\* for each.  The interrupt runs as one step, also between the steps of
\* pop_string.  Here rxf holds the framer (buf), the notification value of
\* the task (notif), the task's position and locals (pc, notif_num, len),
\* the last byte pushed and what the push returned (push; tick tells one
\* push from the next), and for reference the bytes pushed since the last
\* line end (cur), the lines the pushed bytes make up (isr), the strings
\* handed to handle_received_response (handed), the empty strings popped
\* (skipped) and whether a line was completed while a pop was under way
\* (raced).
\* ------------------------------------------------------------------------
MaxIsrLines == 3

\* the bytes the peripheral sends
RtBytes == {"a", ">", cr, lf, nul}

RtInit ==
    /\ rxf = [buf |-> string_buf_rx_init({">"}), notif |-> 0,
              pc |-> "wait", notif_num |-> 0, len |-> 0,
              push |-> [c |-> nul, ret |-> FALSE, tick |-> FALSE],
              cur |-> <<>>, isr |-> <<>>, handed |-> <<>>, skipped |-> 0, raced |-> FALSE]
    /\ txs = <<>>
    /\ pfx = <<>>
    /\ cmd_handler = <<>> /\ response_payload = <<>> /\ awaited_cmd = at_cmd_none
    /\ h_last = <<>> /\ h_segs = <<>> /\ h_plain = TRUE /\ h_strict = TRUE
    /\ h_len = 0 /\ h_regs = 0 /\ h_removed = {}
    /\ EngineIdle

\* the byte ends a line: a delimiter after some bytes, or '>' on its own
RefEndsLine(c) == IF c \in {cr, lf, nul} THEN rxf.cur # <<>> ELSE c = ">" /\ rxf.cur = <<>>

\* it_handle_at_byte_rx(c), with room for the byte in the ring
RtIsr(c) ==
    /\ c \notin {cr, lf, nul}
          => cyclic_buf_get_num_elems(rxf.buf.m_cb, ImmediateBufferSize) < ImmediateBufferSize - 1
    /\ RefEndsLine(c) => Len(rxf.isr) < MaxIsrLines
    /\ LET r == string_buf_rx_push_byte_and_is_string_end(rxf.buf, c)
       IN rxf' = [rxf EXCEPT
                    !.buf = r.buf,
                    !.notif = IF r.ret THEN @ + 1 ELSE @,
                    !.push = [c |-> c, ret |-> r.ret, tick |-> ~rxf.push.tick],
                    !.cur = IF c \in {cr, lf, nul} \/ RefEndsLine(c) THEN <<>> ELSE Append(@, c),
                    !.isr = IF ~RefEndsLine(c) THEN @
                            ELSE IF c = ">" THEN Append(@, <<">">>) ELSE Append(@, rxf.cur),
                    !.raced = @ \/ (r.ret /\ rxf.pc = "copy")]
    /\ UNCHANGED rx_others

\* A take that uses up one notification and leaves the others pending.
RtTake_one ==
    /\ rxf.pc = "wait"
    /\ rxf.notif > 0
    /\ rxf' = [rxf EXCEPT !.notif_num = rxf.notif, !.notif = @ - 1, !.pc = "loop"]
    /\ UNCHANGED rx_others

\* at_rx_task: ulTaskNotifyTake(pdTRUE, portMAX_DELAY) returns the value
\* and clears it
RtTake ==
    /\ rxf.pc = "wait"
    /\ rxf.notif > 0
    /\ rxf' = [rxf EXCEPT !.notif_num = rxf.notif, !.notif = 0, !.pc = "loop"]
    /\ UNCHANGED rx_others

\* at_rx_task: while (notif_num--), and pop_string up to the length of the
\* string: empty when is_empty(), else from m_cb.tail to the popped end
RtPopEnd ==
    /\ rxf.pc = "loop"
    /\ IF rxf.notif_num = 0
       THEN rxf' = [rxf EXCEPT !.pc = "wait"]
       ELSE IF string_buf_rx_is_empty(rxf.buf)
       THEN rxf' = [rxf EXCEPT !.notif_num = @ - 1, !.skipped = @ + 1]
       ELSE LET e == cyclic_buf_pop_elem(rxf.buf.m_end_indexes_cb, ends_indexes_cb_def_size)
            IN rxf' = [rxf EXCEPT
                         !.notif_num = @ - 1,
                         !.buf.m_end_indexes_cb = e.cb,
                         !.len = calc_len_in_circular_buffer(rxf.buf.m_cb.tail, e.val,
                                                             ImmediateBufferSize),
                         !.pc = "copy"]
    /\ UNCHANGED rx_others

\* pop_string: m_cb.pop_nelems; at_rx_task: a string of length 0 is
\* skipped, any other goes to handle_received_response
RtPopCopy ==
    /\ rxf.pc = "copy"
    /\ LET p == cyclic_buf_pop_nelems(rxf.buf.m_cb, rxf.len, ImmediateBufferSize)
       IN rxf' = [rxf EXCEPT
                    !.buf.m_cb = p.cb,
                    !.len = 0,
                    !.pc = "loop",
                    !.handed = IF Len(p.vals) = 0 THEN @ ELSE Append(@, p.vals),
                    !.skipped = IF Len(p.vals) = 0 THEN @ + 1 ELSE @]
    /\ UNCHANGED rx_others

RtNext ==
    \/ \E c \in RtBytes : RtIsr(c)
    \/ RtTake
    \/ RtPopEnd
    \/ RtPopCopy

SpecRxTask == RtInit /\ [][RtNext]_vars

\* ------------------------------------------------------------------------
\* C29 - the prompt character '>' in the framer
\* ------------------------------------------------------------------------
RefLinesIn(b) == cyclic_buf_get_num_elems(b.m_end_indexes_cb, ends_indexes_cb_def_size)

RefBytesIn(b) == cyclic_buf_get_num_elems(b.m_cb, ImmediateBufferSize)

\* C29: with '>' as exceptional character, a '>' pushed when no byte was
\* pushed since the last line end completes the line '>' at once (the push
\* returns true), and a CR, LF or NUL pushed when no byte was pushed since
\* the last line end completes nothing and leaves the framer as it is; a
\* '>' pushed after other bytes of an unfinished line is stored as data
\* and completes nothing.
C29_PromptCharacterAlone ==
    [][rxf'.push.tick # rxf.push.tick
          => /\ (rxf'.push.c = ">" /\ rxf.cur = <<>>)
                  => /\ rxf'.push.ret
                     /\ RefLinesIn(rxf'.buf) = RefLinesIn(rxf.buf) + 1
                     /\ RefBytesIn(rxf'.buf) = RefBytesIn(rxf.buf) + 1
                     /\ rxf'.buf.m_cb.buf[rxf.buf.m_cb.head] = ">"
             /\ (rxf'.push.c \in {cr, lf, nul} /\ rxf.cur = <<>>)
                  => /\ ~rxf'.push.ret
                     /\ rxf'.buf = rxf.buf
             /\ (rxf'.push.c = ">" /\ rxf.cur # <<>>)
                  => /\ ~rxf'.push.ret
                     /\ RefLinesIn(rxf'.buf) = RefLinesIn(rxf.buf)
                     /\ RefBytesIn(rxf'.buf) = RefBytesIn(rxf.buf) + 1
                     /\ rxf'.buf.m_cb.buf[rxf.buf.m_cb.head] = ">"]_vars

\* '>' came alone and was a line, the CR after it made none; then 'a>' and
\* CR made the second line; both were popped as such
C29_Witness ==
    /\ rxf.isr = << <<">">>, <<"a", ">">> >>
    /\ rxf.handed = rxf.isr
    /\ rxf.push.c = cr
    /\ rxf.push.ret

\* ------------------------------------------------------------------------
\* C30 - the lines the RX task gets are the lines the interrupt completed
\* ------------------------------------------------------------------------
\* C30: the strings handed to handle_received_response are, in order, the
\* first of the lines completed by the interrupt, none twice, split or
\* merged; every notification stands for one line not yet handed over, and
\* no pop gives an empty string.
C30_LinesHandedInOrder ==
    /\ Len(rxf.handed) <= Len(rxf.isr)
    /\ \A i \in 1..Len(rxf.handed) : rxf.handed[i] = rxf.isr[i]
    /\ rxf.skipped = 0
    /\ Len(rxf.handed) + (IF rxf.pc = "copy" THEN 1 ELSE 0) + rxf.notif_num + rxf.notif
           = Len(rxf.isr)

\* three lines were handed over, one of them completed while a pop was
\* under way, and the task waits again
C30_Witness ==
    /\ Len(rxf.handed) = 3
    /\ rxf.handed = rxf.isr
    /\ rxf.raced
    /\ rxf.pc = "wait"
    /\ rxf.buf.m_cb.tail # 0

\* ------------------------------------------------------------------------
\* C31 - lines that arrive while no call is in progress
\* ------------------------------------------------------------------------
\* C31: every line completed by the RX interrupt is classified in the end,
\* and a line that is classified while no send call is in progress is
\* handled as unsolicited: it is not a result of a command and takes no
\* part in a command's payload.
C31_GapLinesAreUnsolicited ==
    [][(rx_classify /\ \A t \in Callers : pc[t] = "idle")
          => /\ rx'.res = "unknown"
             /\ response_payload' = response_payload]_vars

\* ------------------------------------------------------------------------
\* C32 - the TX interrupt sends what was pushed
\* ------------------------------------------------------------------------
\* C32: every invocation of the TX interrupt that finds the buffer not
\* empty hands over the next byte that was pushed and not yet sent: the
\* bytes go out once each, in the order pushed, and nothing else goes out.
C32_IsrSendsNextPushedByte ==
    [][TxPop => /\ Len(txs.popped) < Len(txs.pushed)
                /\ txs.popped' = Append(txs.popped, txs.pushed[Len(txs.popped) + 1])]_vars

\* ------------------------------------------------------------------------
\* C33 - the TX buffer is written only while the TX interrupt is off
\* ------------------------------------------------------------------------
\* C33: whenever a task cleans tx_buf or pushes a string into it (a caller
\* in transmit_command, the RX task answering a prompt), the TX interrupt
\* is disabled, so no frame pushed earlier is still being sent.
C33_WrittenWithInterruptOff ==
    [][(tx_buf' # tx_buf /\ ~it_handle_at_byte_tx) => ~tx_it_enabled]_vars

\* ------------------------------------------------------------------------
\* C35 - the accumulator starts afresh with every command
\* ------------------------------------------------------------------------
\* C35: the payload a call returns holds only segments accumulated after
\* the RX task made the call's command the awaited one: a call that
\* returns a payload returns one that was published while it was under
\* way.
C35_PayloadOfOwnCommand ==
    \A k \in CallIds :
        (calls[k].status \in Terminal /\ calls[k].payload # <<>>) => calls[k].delivered

\* ------------------------------------------------------------------------
\* C36 - the one-slot queue: a taken signal finds an element
\* ------------------------------------------------------------------------
\* C36: when receive has taken the queue's semaphore and reads the slot,
\* the slot holds an element: neither the RX task reading the hand-off
\* queue nor a caller reading the result queue reads an empty vector.
C36_ReceiveReadsAnElement ==
    [][/\ rx_depute_read => ~os_queue_receive_out_of_bounds(at_depute_work_queue)
       /\ \A t \in Callers :
              send_result(t) => ~os_queue_receive_out_of_bounds(at_work_result_queue)]_vars

\* ------------------------------------------------------------------------
\* C37 - whose prompt message answers a '>'
\* ------------------------------------------------------------------------
\* C37: when the RX task answers a '>' with the stored prompt data, a
\* prompted call is in flight and the message and the end policy stored
\* are the ones that call passed.
C37_PromptDataOfCallInFlight ==
    [][(handle_prompt_request /\ at_prompt_data.valid)
          => \E t \in Callers :
                /\ at_mux = t
                /\ call[t].form = "prompted"
                /\ at_prompt_data.prompt_message = PromptMsg(t)
                /\ at_prompt_data.policy = PromptPolicy(t)]_vars

\* ------------------------------------------------------------------------
\* C38 - the prefix that is stripped lies within the line
\* ------------------------------------------------------------------------
\* C38: whenever the prefix is stripped from a line (a data line of the
\* awaited extended command, a line handed to an extended-command
\* handler), the prefix length computed for it is at most the length of
\* the line.
C38_PrefixWithinLine == h_last # NoCall => ~h_last.ub

\* ------------------------------------------------------------------------
\* The engine from power-up, under a fair scheduler.  main() registers
\* handlers and starts the scheduler; then the caller tasks register
\* handlers and send commands (at_send), the RX task and the two
\* interrupts run.  A task that can take a step is not held up for ever;
\* nothing obliges a task to start a call or a registration.  The handlers
\* are registered for at_cmd::cr; the first command sent is at_cmd::cr,
\* the ones after it at_cmd::crc, so that the late reply to a call that
\* timed out meets the handler and the next call.
\* ------------------------------------------------------------------------
MaxRegistrations == 1

\* xTaskGetSchedulerState() == taskSCHEDULER_RUNNING
taskSCHEDULER_RUNNING == \A t \in Callers : pc[t] # "boot"

FairInit ==
    /\ cmd_handler = [cmd |-> <<>>, msg |-> <<>>]
    /\ response_payload = <<>>
    /\ awaited_cmd = at_cmd_none
    /\ h_last = NoCall
    /\ h_segs = <<>>
    /\ h_plain = TRUE
    /\ h_strict = TRUE
    /\ h_len = 0
    /\ h_regs = 0
    /\ h_removed = {}
    /\ BuffersIdle
    /\ pc = [t \in Callers |-> "boot"]
    /\ call = [t \in Callers |-> NoRequest]
    /\ wait_left = [t \in Callers |-> 0]
    /\ at_mux = 0
    /\ at_cmd_handler_mux = 0
    /\ at_depute_work_queue = os_queue_init
    /\ at_work_result_queue = os_queue_init
    /\ at_prompt_data = [policy |-> "none", prompt_message |-> <<>>, valid |-> FALSE]
    /\ tx_buf = string_buf_tx_init
    /\ tx_it_enabled = FALSE
    /\ wire = <<>>
    /\ rx_buf = <<>>
    /\ rx_notif = 0
    /\ rx = [pc |-> "idle", notif_num |-> 0, response |-> NoLine, res |-> "unknown",
             suffix |-> <<>>, prompts |-> 0]
    /\ calls = <<>>
    /\ periph = <<>>

fair_others == <<response_payload, awaited_cmd, h_last, h_segs, h_plain, h_strict, h_len,
                 h_removed, buf_vars, call, wait_left, at_mux,
                 at_depute_work_queue, at_work_result_queue, at_prompt_data,
                 tx_buf, tx_it_enabled, wire, rx_buf, rx_notif, rx, calls, periph>>

\* register_unsolicited_handler called before the scheduler runs: the
\* handler is added, at_cmd_handler_mux is not used
register_unsolicited_handler(command) ==
    /\ ~taskSCHEDULER_RUNNING
    /\ h_regs < MaxRegistrations
    /\ cmd_handler' = register_unsolicited_handler_cmd(cmd_handler, h_regs + 1, command)
    /\ h_regs' = h_regs + 1
    /\ UNCHANGED <<pc, at_cmd_handler_mux, fair_others>>

vTaskStartScheduler ==
    /\ ~taskSCHEDULER_RUNNING
    /\ pc' = [t \in Callers |-> "idle"]
    /\ UNCHANGED <<cmd_handler, h_regs, at_cmd_handler_mux, fair_others>>

\* a registration that goes on without the mutex although the scheduler runs
register_lock_no_mutex(t) ==
    /\ NextCaller(t)
    /\ h_regs < MaxRegistrations
    /\ pc' = [pc EXCEPT ![t] = "register"]
    /\ UNCHANGED <<cmd_handler, h_regs, at_cmd_handler_mux, fair_others>>

\* register_unsolicited_handler with the scheduler running:
\* os_lockguard g(at_cmd_handler_mux)
register_lock(t) ==
    /\ NextCaller(t)
    /\ h_regs < MaxRegistrations
    /\ os_lockguard_ctor(at_cmd_handler_mux)
    /\ at_cmd_handler_mux' = t
    /\ pc' = [pc EXCEPT ![t] = "register"]
    /\ UNCHANGED <<cmd_handler, h_regs, fair_others>>

\* a registration that returns with the mutex
register_add_no_give(t, command) ==
    /\ pc[t] = "register"
    /\ cmd_handler' = register_unsolicited_handler_cmd(cmd_handler, h_regs + 1, command)
    /\ h_regs' = h_regs + 1
    /\ pc' = [pc EXCEPT ![t] = "idle"]
    /\ UNCHANGED <<at_cmd_handler_mux, fair_others>>

\* cmd_handler.register_unsolicited_handler under the mutex, and the
\* lockguard's destructor
register_add(t, command) ==
    /\ pc[t] = "register"
    /\ cmd_handler' = register_unsolicited_handler_cmd(cmd_handler, h_regs + 1, command)
    /\ h_regs' = h_regs + 1
    /\ at_cmd_handler_mux' = os_lockguard_dtor(at_cmd_handler_mux)
    /\ pc' = [pc EXCEPT ![t] = "idle"]
    /\ UNCHANGED fair_others

\* at_rx_task: a line is popped, handle_received_response classifies it
\* and publishes a terminal
at_rx_task ==
    \/ rx_next_line
    \/ rx_depute_read
    \/ rx_classify
    \/ rx_publish
    \/ rx_publish_give

\* at_send_and_get_response of at_send, from the hand-off of the command
\* to the return
at_send_and_get_response(t) ==
    \/ send_depute(t)
    \/ send_depute_give(t)
    \/ \E ticks \in 0..MaxTicks : send_transmit(t, ticks)
    \/ send_receive(t)
    \/ send_tick(t)
    \/ send_timeout(t)
    \/ send_result(t)

\* what a caller task does once it has started a call or a registration
caller_task(t) ==
    \/ at_send_and_get_response(t)
    \/ register_add(t, cmd_cr)

FairNext ==
    \/ register_unsolicited_handler(cmd_cr)
    \/ vTaskStartScheduler
    \/ \E t \in Callers : register_lock(t)
    \/ \E t \in Callers : at_send(t, IF calls = <<>> THEN cmd_cr ELSE cmd_crc)
    \/ \E t \in Callers : caller_task(t)
    \/ it_handle_at_byte_tx
    \/ it_handle_at_byte_rx
    \/ at_rx_task

SpecFair ==
    /\ FairInit
    /\ [][FairNext]_vars
    /\ WF_vars(at_rx_task)
    /\ WF_vars(it_handle_at_byte_rx)
    /\ WF_vars(it_handle_at_byte_tx)
    /\ \A t \in Callers : WF_vars(caller_task(t))

\* ------------------------------------------------------------------------
\* C34 - registering and dispatching exclude each other
\* ------------------------------------------------------------------------
\* C34: with the scheduler running, the RX task classifies a line (and
\* invokes a handler) only while no caller is inside
\* register_unsolicited_handler, and a caller inside it holds the registry
\* mutex; before the scheduler runs a registration adds the handler and
\* leaves the mutex alone.
C34_RegistryMutualExclusion ==
    [][/\ rx_classify => \A t \in Callers : pc[t] # "register"
       /\ \A t \in Callers : pc[t] = "register" => at_cmd_handler_mux = t
       /\ (~taskSCHEDULER_RUNNING /\ cmd_handler' # cmd_handler)
             => /\ at_cmd_handler_mux = 0
                /\ at_cmd_handler_mux' = 0
                /\ Len(cmd_handler'.cmd) = Len(cmd_handler.cmd) + 1]_vars

\* a caller is inside register_unsolicited_handler, and the RX task has a
\* line of the peripheral to classify and waits for the mutex
C34_Witness ==
    /\ \E t \in Callers : pc[t] = "register" /\ at_cmd_handler_mux = t
    /\ rx.pc = "classify"
    /\ rx.response.text = line_cr_a

\* ------------------------------------------------------------------------
\* C39 - no task waits for ever on a mutex
\* ------------------------------------------------------------------------
\* C39: the RX task that has a line at hand gets through the hand-off
\* queue, the registry mutex and the result queue and comes back to wait
\* for the next line, and a caller that holds the send mutex gets through
\* every queue operation it starts.
C39_NoWaitForEver ==
    /\ (rx.pc # "idle") ~> (rx.pc = "idle")
    /\ \A t \in Callers :
          (at_mux = t /\ pc[t] \in {"depute", "give", "read"})
              ~> (pc[t] \notin {"depute", "give", "read"})

\* a caller holds the send mutex and waits for its result, another holds
\* the registry mutex, and the RX task waits for that mutex with a line
C39_Witness ==
    \E t, u \in Callers :
        /\ at_mux = t /\ pc[t] = "receive"
        /\ at_cmd_handler_mux = u /\ pc[u] = "register"
        /\ rx.pc = "classify"

\* ------------------------------------------------------------------------
\* C40 - a call returns
\* ------------------------------------------------------------------------
\* The engine with a peripheral that keeps sending OK of its own accord
\* while a call that follows a timed-out call waits for its result: the
\* lines that can be published for another command never run out.
peripheral_unsolicited ==
    /\ \E t \in Callers : pc[t] = "receive" /\ AfterTimeout(call[t].id)
    /\ periph = <<>>
    /\ rx_buf = <<>>
    /\ rx_notif = 0
    /\ rx.pc = "idle"
    /\ periph' = <<[text |-> str_OK, origin |-> 0]>>
    /\ UNCHANGED <<handler_vars, test_vars, pc, call, wait_left, at_mux, at_cmd_handler_mux,
                   at_depute_work_queue, at_work_result_queue, at_prompt_data,
                   tx_buf, tx_it_enabled, wire, rx_buf, rx_notif, rx, calls>>

ChattyNext ==
    \/ \E t \in Callers : at_send(t, IF calls = <<>> THEN cmd_cr ELSE cmd_crc)
    \/ \E t \in Callers : at_send_and_get_response(t)
    \/ it_handle_at_byte_tx
    \/ it_handle_at_byte_rx
    \/ at_rx_task
    \/ peripheral_unsolicited

SpecChatty ==
    /\ Init
    /\ [][ChattyNext]_vars
    /\ WF_vars(at_rx_task)
    /\ WF_vars(it_handle_at_byte_rx)
    /\ WF_vars(it_handle_at_byte_tx)
    /\ \A t \in Callers : WF_vars(at_send_and_get_response(t))

\* C40: every call that has taken the send mutex returns in the end, also
\* when it discards results of other commands on the way.
C40_CallReturns ==
    \A t \in Callers : (pc[t] \in InFlight) ~> (pc[t] = "idle" /\ at_mux # t)

\* a call has discarded a result published for another command and waits
\* again, its ticks_to_wait already spent once, and the peripheral has
\* sent an OK of its own accord
C40_Witness ==
    \E t \in Callers :
        /\ pc[t] = "receive"
        /\ call[t].cmd = cmd_crc
        /\ call[t].waited > call[t].ticks
        /\ periph = <<[text |-> str_OK, origin |-> 0]>>

====
